---- MODULE Spec2Model ----
(***************************************************************************)
(* Model of the audio-reactive visualization pipeline of elk-led-controller *)
(* (src/src/audio.rs) and of the fixture commands it drives                *)
(* (src/src/device.rs).                                                    *)
(*                                                                         *)
(* Execution contexts:                                                     *)
(*   producer  - the cpal input callback (build_input_stream)              *)
(*   analyzer  - the thread running AudioMonitor::run_analyzer             *)
(*   consumer  - the task running start_continuous_monitoring              *)
(*   owner     - the control surface calling set_config / set_active /     *)
(*               stop and finally dropping the AudioMonitor                *)
(*                                                                         *)
(* Numbers: normalized energies, sensitivity and sine phases are rationals *)
(* in hundredths (70 stands for 0.7); a float-to-u8 cast is truncation     *)
(* with saturation.  Time is counted in units of 25 ms of the monotonic    *)
(* clock.                                                                  *)
(***************************************************************************)
EXTENDS Integers, Sequences, FiniteSets, TLC

\* ------------------------------------------------------------------ bounds
\* Samples the audio callback offers during a run.
MaxSamples == 4
\* Samples handed to one invocation of the audio callback.
MaxBatch == 2
\* Capacity of the sample channel (4096 in the source, scaled down).
ChannelCapacity == 2
\* Analysis window size (2048 in the source, scaled down).
SampleSize == 2
\* Last reading of the monotonic clock.
MaxClock == 3
\* Calls the owner makes to set_config / set_active.
MaxWrites == 2
\* send_command calls made by each task
MaxSends == 2
\* Nested invocations of parse_days that are followed
MaxDepth == 4
\* Consumer iterations between detailed log lines (50 in the source, scaled).
LogPeriod == 2

\* --------------------------------------------------------------- constants
None == "None"

\* Option<u8>::None of AudioColor.effect and BleLedDevice.effect.
NoEffect == -1

EFFECTS_jump_red_green_blue == 135
EFFECTS_jump_red_green_blue_yellow_cyan_magenta_white == 136
EFFECTS_crossfade_red == 139
EFFECTS_crossfade_green == 140
EFFECTS_crossfade_blue == 141
EFFECTS_crossfade_white == 145
EFFECTS_crossfade_red_green_blue == 137
EFFECTS_blink_red_green_blue_yellow_cyan_magenta_white == 149

Modes == {"FrequencyColor", "EnergyBrightness", "BeatEffects", "SpectralFlow",
          "EnhancedFrequencyColor", "BpmSync"}

\* AudioVisualization::default(); update_interval_ms 50 = 2 clock units.
DefaultConfig ==
  [range |-> "Full", mode |-> "FrequencyColor", sensitivity |-> 70,
   bass_color_trigger |-> TRUE, mid_brightness_trigger |-> TRUE,
   high_effect_trigger |-> TRUE, update_interval_ms |-> 2, active |-> FALSE]

\* AudioColor::default()
DefaultColor == [r |-> 0, g |-> 0, b |-> 0, brightness |-> 100, effect |-> NoEffect]

\* ------------------------------------------------------------ arithmetic
Min(a, b) == IF a < b THEN a ELSE b
Max(a, b) == IF a > b THEN a ELSE b
Clamp(x, lo, hi) == Min(Max(x, lo), hi)

\* Rust `as u8` of a non-negative float whose truncation is x: saturating.
U8(x) == Clamp(x, 0, 255)

\* u8 `+=` as a release build computes it (two's complement wrap-around).
AddU8(a, b) == (a + b) % 256

\* --------------------------------------------------------- f32 arithmetic
\* The analyzer's energies are f32.  A positive f32 is the record [m, x]
\* standing for m * 2^x with 2^23 <= m < 2^24; FZero is 0.0.  Every
\* operation rounds its exact result to the nearest f32, ties to even, as
\* the hardware does.  Intermediate integers stay below 2^31.
MantissaBits == 24
Pow2(k) == 2 ^ k
FZero == [m |-> 0, x |-> 0]

\* Number of binary digits of n, 0 < n < 2^30.
BitLen(n) == CHOOSE k \in 1..30 : Pow2(k - 1) <= n /\ n < Pow2(k)

\* q + r / (2 * half) rounded to the nearest integer, ties to even.
RoundEven(q, r, half) ==
  IF r = 0 THEN q
  ELSE IF r > half \/ (r = half /\ q % 2 = 1) THEN q + 1 ELSE q

\* A rounded mantissa that reached 2^24 moves to the next binade.
Pack(q, x) ==
  IF q = Pow2(MantissaBits) THEN [m |-> Pow2(MantissaBits - 1), x |-> x + 1]
  ELSE [m |-> q, x |-> x]

\* n * 2^x rounded to f32, 0 <= n < 2^30.
Round(n, x) ==
  IF n = 0 THEN FZero
  ELSE LET s == BitLen(n) - MantissaBits
       IN  IF s <= 0 THEN [m |-> n * Pow2(-s), x |-> x + s]
           ELSE Pack(RoundEven(n \div Pow2(s), n % Pow2(s), Pow2(s - 1)), x + s)

\* `n as f32` of a small integer.
FInt(n) == Round(n, 0)

\* f32 `*`: the 48-bit product is assembled from 12-bit halves.
FMul(a, b) ==
  IF a.m = 0 \/ b.m = 0 THEN FZero
  ELSE LET h == Pow2(12)
           ah == a.m \div h
           al == a.m % h
           bh == b.m \div h
           bl == b.m % h
           mid == ah * bl + al * bh
           low == (mid % h) * h + al * bl
           lo == low % Pow2(24)
           hi == ah * bh + mid \div h + low \div Pow2(24)
       IN  IF hi >= Pow2(23)
           THEN Pack(RoundEven(hi, lo, Pow2(23)), a.x + b.x + 24)
           ELSE Pack(RoundEven(2 * hi + lo \div Pow2(23), lo % Pow2(23), Pow2(22)),
                     a.x + b.x + 23)

\* f32 `+` of non-negative operands.
FAdd(a, b) ==
  IF a.m = 0 THEN b
  ELSE IF b.m = 0 THEN a
  ELSE LET big == IF a.x >= b.x THEN a ELSE b
           small == IF a.x >= b.x THEN b ELSE a
           d == big.x - small.x
       IN  IF d >= 26 THEN big
           ELSE LET whole == big.m + small.m \div Pow2(d)
                    frac == small.m % Pow2(d)
                IN  IF whole < Pow2(MantissaBits)
                    THEN Pack(RoundEven(whole, frac, Pow2(d) \div 2), big.x)
                    ELSE Pack(RoundEven(whole \div 2, (whole % 2) * Pow2(d) + frac,
                                        Pow2(d)), big.x + 1)

\* f32 `<` and `<=` of non-negative operands.
FLess(a, b) ==
  IF b.m = 0 THEN FALSE
  ELSE IF a.m = 0 THEN TRUE
  ELSE a.x < b.x \/ (a.x = b.x /\ a.m < b.m)

FLeq(a, b) == a = b \/ FLess(a, b)

\* k binary digits of r / d after the point (r < d < 2^29), and the
\* remainder left after them.
RECURSIVE DivBits(_, _, _)
DivBits(r, d, k) ==
  IF k = 0 THEN <<0, r>>
  ELSE LET rest == DivBits((2 * r) % d, d, k - 1)
       IN  <<((2 * r) \div d) * Pow2(k - 1) + rest[1], rest[2]>>

\* n / d rounded to f32, 0 < n, d < 2^29.
FRatio(n, d) ==
  LET ln == BitLen(n)
      ld == BitLen(d)
      n1 == IF ld > ln THEN n * Pow2(ld - ln) ELSE n
      d1 == IF ln > ld THEN d * Pow2(ln - ld) ELSE d
      bits == DivBits(n1 % d1, d1, 26)
      sticky == IF bits[2] > 0 THEN 1 ELSE 0
  IN  Round(2 * ((n1 \div d1) * Pow2(26) + bits[1]) + sticky, ln - ld - 27)

\* f32 `/` of non-negative operands, b > 0.
FDiv(a, b) ==
  IF a.m = 0 THEN FZero
  ELSE LET q == FRatio(a.m, b.m) IN [q EXCEPT !.x = @ + a.x - b.x]

\* The f32 values of the literals the analyzer uses.
F0_0005 == [m |-> 8589935, x |-> -34]
F0_01 == [m |-> 10737418, x |-> -30]
F0_3 == [m |-> 10066330, x |-> -25]
F0_7 == [m |-> 11744051, x |-> -24]
F0_8 == [m |-> 13421773, x |-> -24]
F0_9995 == [m |-> 16768827, x |-> -24]
F1_0 == [m |-> 8388608, x |-> -23]
F1_2 == [m |-> 10066330, x |-> -23]
F1_3 == [m |-> 10905190, x |-> -23]
F1_4 == [m |-> 11744051, x |-> -23]
F3_0 == [m |-> 12582912, x |-> -22]
F60_0 == [m |-> 15728640, x |-> -18]
F120_0 == [m |-> 15728640, x |-> -17]
F200_0 == [m |-> 13107200, x |-> -16]

\* Sequential `iter().sum::<f32>()`.
RECURSIVE FSum(_)
FSum(s) == IF s = <<>> THEN FZero ELSE FAdd(FSum(SubSeq(s, 1, Len(s) - 1)), s[Len(s)])

\* ------------------------------------------------- visualization engine
\* The arguments of the mode rules: prev is run_analyzer's audio_color as
\* the previous tick left it, a the analyzer's answers to the queries of
\* this tick (bass, mid, high: get_normalized_energy; beat: is_beat_detected;
\* bpm: get_bpm), s the sensitivity and t what the tick derives from
\* current_time (the sine phases pulse, bass_phase, mid_phase, high_phase,
\* and on_beat: is_on_beat(current_time)).

\* get_normalized_energy(Full) is (bass + mid + high) / 3; the rules compare
\* and scale three times that value.
Sum3(a) == a.bass + a.mid + a.high

\* A FrequencyColor arm that starts from `AudioColor::default()`.
FrequencyColorRule_fresh(prev, a, s) ==
  LET r0 == U8((a.bass * 255 * s) \div 10000)
      g0 == U8((a.mid * 255 * s) \div 10000)
      b0 == U8((a.high * 255 * s) \div 10000)
      lift == Sum3(a) > 15
  IN  [DefaultColor EXCEPT !.r = IF lift THEN Max(r0, 10) ELSE r0,
                           !.g = IF lift THEN Max(g0, 10) ELSE g0,
                           !.b = IF lift THEN Max(b0, 10) ELSE b0]

FrequencyColorRule(prev, a, s) ==
  LET r0 == U8((a.bass * 255 * s) \div 10000)
      g0 == U8((a.mid * 255 * s) \div 10000)
      b0 == U8((a.high * 255 * s) \div 10000)
      lift == Sum3(a) > 15
  IN  [prev EXCEPT !.r = IF lift THEN Max(r0, 10) ELSE r0,
                   !.g = IF lift THEN Max(g0, 10) ELSE g0,
                   !.b = IF lift THEN Max(b0, 10) ELSE b0,
                   !.effect = NoEffect]

EnergyBrightnessRule(prev, a, s) ==
  LET rgb == IF a.bass > a.mid /\ a.bass > a.high /\ a.bass > 10 THEN <<255, 0, 0>>
             ELSE IF a.mid > a.bass /\ a.mid > a.high /\ a.mid > 10 THEN <<0, 255, 0>>
             ELSE IF a.high > a.bass /\ a.high > a.mid /\ a.high > 10 THEN <<0, 0, 255>>
             ELSE <<255, 255, 255>>
  IN  [r |-> rgb[1], g |-> rgb[2], b |-> rgb[3],
       brightness |-> Clamp(U8((Sum3(a) * s) \div 300), 5, 100),
       effect |-> NoEffect]

\* A BeatEffects rule that reacts to a beat whatever its trigger says.
BeatEffectsRule_untriggered(prev, a, s, bass_trigger, mid_trigger, high_trigger) ==
  LET c == IF a.beat[1] THEN <<255, 0, 0, EFFECTS_crossfade_red>>
           ELSE IF a.beat[2] THEN <<0, 255, 0, EFFECTS_crossfade_green>>
           ELSE IF a.beat[3] THEN <<0, 0, 255, EFFECTS_crossfade_blue>>
           ELSE <<255, 255, 255, NoEffect>>
  IN  [r |-> c[1], g |-> c[2], b |-> c[3],
       brightness |-> Clamp(U8((Sum3(a) * s) \div 300), 20, 100),
       effect |-> c[4]]

BeatEffectsRule(prev, a, s, bass_trigger, mid_trigger, high_trigger) ==
  LET c == IF a.beat[1] /\ bass_trigger THEN <<255, 0, 0, EFFECTS_crossfade_red>>
           ELSE IF a.beat[2] /\ mid_trigger THEN <<0, 255, 0, EFFECTS_crossfade_green>>
           ELSE IF a.beat[3] /\ high_trigger THEN <<0, 0, 255, EFFECTS_crossfade_blue>>
           ELSE <<255, 255, 255, NoEffect>>
  IN  [r |-> c[1], g |-> c[2], b |-> c[3],
       brightness |-> Clamp(U8((Sum3(a) * s) \div 300), 20, 100),
       effect |-> c[4]]

SpectralFlowRule(prev, a, s, t) ==
  LET energy == 5 * a.bass + 3 * a.mid + 2 * a.high   \* in thousandths
      c == IF energy < 50
           THEN [prev EXCEPT !.r = U8((t.pulse * 50) \div 100),
                             !.g = U8((t.pulse * 50) \div 100),
                             !.b = U8((t.pulse * 80) \div 100),
                             !.effect = EFFECTS_crossfade_red_green_blue]
           ELSE IF a.beat[1] /\ a.bass > 70
           THEN [prev EXCEPT !.effect = EFFECTS_jump_red_green_blue_yellow_cyan_magenta_white]
           ELSE [prev EXCEPT
                   !.r = U8((t.bass_phase * 255 * a.bass * s) \div 1000000),
                   !.g = U8((t.mid_phase * 255 * a.mid * s) \div 1000000),
                   !.b = U8((t.high_phase * 255 * a.high * s) \div 1000000),
                   !.effect = EFFECTS_crossfade_red_green_blue]
  IN  [c EXCEPT !.brightness = U8(Min(Max((energy * s) \div 1000, 20), 100))]

EnhancedFrequencyColorRule(prev, a, s) ==
  LET r1 == IF a.bass > 5 THEN AddU8(0, U8((255 * a.bass * s) \div 10000)) ELSE 0
      g1 == IF a.bass > 5 THEN AddU8(0, U8((150 * a.bass * a.bass * s) \div 1000000)) ELSE 0
      g2 == IF a.mid > 5 THEN AddU8(g1, U8((255 * a.mid * s) \div 10000)) ELSE g1
      b2 == IF a.mid > 5 THEN AddU8(0, U8((100 * a.mid * a.mid * s) \div 1000000)) ELSE 0
      b3 == IF a.high > 5 THEN AddU8(b2, U8((255 * a.high * s) \div 10000)) ELSE b2
      r3 == IF a.high > 5 THEN AddU8(r1, U8((180 * a.high * a.high * s) \div 1000000)) ELSE r1
      g3 == IF a.high > 5 THEN AddU8(g2, U8((180 * a.high * a.high * s) \div 1000000)) ELSE g2
      lift == Sum3(a) > 15
      base == [r |-> IF lift THEN Max(r3, 10) ELSE r3,
               g |-> IF lift THEN Max(g3, 10) ELSE g3,
               b |-> IF lift THEN Max(b3, 10) ELSE b3,
               brightness |-> Clamp(U8((Sum3(a) * s) \div 300), 20, 100),
               effect |-> NoEffect]
      warm == IF a.bass > 70 /\ 2 * a.bass > 3 * a.mid /\ a.bass > 2 * a.high
              THEN [base EXCEPT !.r = 255, !.g = U8((120 * a.bass * s) \div 10000), !.b = 0]
              ELSE base
  IN  IF a.high > 70 /\ 2 * a.high > 3 * a.mid /\ a.high > 2 * a.bass
      THEN [warm EXCEPT !.r = U8((210 * a.high * s) \div 10000),
                        !.g = U8((220 * a.high * s) \div 10000), !.b = 255]
      ELSE warm

\* A BpmSync rule without the slow-tempo branch.
BpmSyncRule_no_slow(prev, a, s, t) ==
  LET r == U8(Min((a.bass * 255 * s * 12) \div 100000, 255))
      g == U8(Min((a.mid * 255 * s * 11) \div 100000, 255))
      b == U8(Min((a.high * 255 * s * 12) \div 100000, 255))
      c == IF FALSE
           THEN IF t.on_beat /\ a.beat[1]
                THEN <<255, U8((g * 7) \div 10), U8((b * 6) \div 10), EFFECTS_crossfade_red>>
                ELSE <<r, g, b, EFFECTS_crossfade_red_green_blue>>
           ELSE IF a.bpm < 120
           THEN IF t.on_beat
                THEN IF a.beat[1] THEN <<255, 40, 0, EFFECTS_jump_red_green_blue>>
                                  ELSE <<255, 255, 255, EFFECTS_crossfade_white>>
                ELSE <<r, g, b, NoEffect>>
           ELSE IF t.on_beat /\ a.beat[1] THEN <<255, 255, 255, EFFECTS_jump_red_green_blue_yellow_cyan_magenta_white>>
           ELSE IF t.on_beat THEN <<r, g, b, EFFECTS_blink_red_green_blue_yellow_cyan_magenta_white>>
           ELSE <<U8((r * 7) \div 10), U8((g * 7) \div 10), U8((b * 7) \div 10), NoEffect>>
      base_brightness == U8(Max((60 * s) \div 100, 20))
      pulse_amplitude == U8((40 * s) \div 100)
  IN  [r |-> c[1], g |-> c[2], b |-> c[3],
       brightness |-> IF t.on_beat THEN Min(AddU8(base_brightness, pulse_amplitude), 100)
                                   ELSE base_brightness,
       effect |-> c[4]]

BpmSyncRule(prev, a, s, t) ==
  LET r == U8(Min((a.bass * 255 * s * 12) \div 100000, 255))
      g == U8(Min((a.mid * 255 * s * 11) \div 100000, 255))
      b == U8(Min((a.high * 255 * s * 12) \div 100000, 255))
      c == IF a.bpm < 70
           THEN IF t.on_beat /\ a.beat[1]
                THEN <<255, U8((g * 7) \div 10), U8((b * 6) \div 10), EFFECTS_crossfade_red>>
                ELSE <<r, g, b, EFFECTS_crossfade_red_green_blue>>
           ELSE IF a.bpm < 120
           THEN IF t.on_beat
                THEN IF a.beat[1] THEN <<255, 40, 0, EFFECTS_jump_red_green_blue>>
                                  ELSE <<255, 255, 255, EFFECTS_crossfade_white>>
                ELSE <<r, g, b, NoEffect>>
           ELSE IF t.on_beat /\ a.beat[1] THEN <<255, 255, 255, EFFECTS_jump_red_green_blue_yellow_cyan_magenta_white>>
           ELSE IF t.on_beat THEN <<r, g, b, EFFECTS_blink_red_green_blue_yellow_cyan_magenta_white>>
           ELSE <<U8((r * 7) \div 10), U8((g * 7) \div 10), U8((b * 7) \div 10), NoEffect>>
      base_brightness == U8(Max((60 * s) \div 100, 20))
      pulse_amplitude == U8((40 * s) \div 100)
  IN  [r |-> c[1], g |-> c[2], b |-> c[3],
       brightness |-> IF t.on_beat THEN Min(AddU8(base_brightness, pulse_amplitude), 100)
                                   ELSE base_brightness,
       effect |-> c[4]]

\* The match on vis_mode in run_analyzer: the value of audio_color after the
\* tick, from its value before the tick (prev), the analyzer's answers (a),
\* the configuration snapshot of the pass (cfg) and the time phases (t).
Decide(prev, a, cfg, t) ==
  CASE cfg.mode = "FrequencyColor" -> FrequencyColorRule(prev, a, cfg.sensitivity)
    [] cfg.mode = "EnergyBrightness" -> EnergyBrightnessRule(prev, a, cfg.sensitivity)
    [] cfg.mode = "BeatEffects" ->
         BeatEffectsRule(prev, a, cfg.sensitivity, cfg.bass_trigger,
                         cfg.mid_trigger, cfg.high_trigger)
    [] cfg.mode = "SpectralFlow" -> SpectralFlowRule(prev, a, cfg.sensitivity, t)
    [] cfg.mode = "EnhancedFrequencyColor" ->
         EnhancedFrequencyColorRule(prev, a, cfg.sensitivity)
    [] cfg.mode = "BpmSync" -> BpmSyncRule(prev, a, cfg.sensitivity, t)

\* ------------------------------------------------------------------ inputs
\* Configurations the owner stores with set_config.
ConfigInputs ==
  { [DefaultConfig EXCEPT !.mode = "EnergyBrightness", !.sensitivity = 100,
                          !.update_interval_ms = 1, !.bass_color_trigger = FALSE,
                          !.active = TRUE],
    [DefaultConfig EXCEPT !.active = TRUE] }

\* Command lines of `audio`: mode, range, sensitivity / 100, update_ms.  The
\* sensitivity argument is a u8 and is not validated: 200 stores 2.0.
CliInputs ==
  { [mode |-> "FrequencyColor", range |-> "Full", sensitivity |-> 70, update_ms |-> 2],
    [mode |-> "BpmSync", range |-> "Bass", sensitivity |-> 200, update_ms |-> 1],
    [mode |-> "EnergyBrightness", range |-> "Full", sensitivity |-> 100, update_ms |-> 1] }

\* What the analyzer answers before the window has filled (AudioAnalyzer::new).
InitialView == [bass |-> 0, mid |-> 0, high |-> 0,
                beat |-> <<FALSE, FALSE, FALSE>>, bpm |-> 120]

\* AudioAnalyzer::new.  samples holds the identities of the buffered samples
\* and view the analyzer's answers in hundredths (the coarse picture the
\* pipeline is checked with); the other fields are the struct's own, energies
\* as f32 and times in milliseconds.
NewAnalyzer ==
  [samples |-> <<>>, view |-> InitialView,
   energy |-> <<FZero, FZero, FZero>>,
   smoothed_energy |-> <<FZero, FZero, FZero>>,
   prev_energy |-> <<FZero, FZero, FZero>>,
   beat_thresholds |-> <<F1_4, F1_3, F1_2>>,
   max_energy |-> <<F0_01, F0_01, F0_01>>,
   beat_detected |-> <<FALSE, FALSE, FALSE>>,
   scaling |-> F0_8,
   estimated_bpm |-> F120_0,
   beat_timestamps |-> <<>>,
   last_beat_time |-> 0,
   energy_history |-> << <<>>, <<>>, <<>> >>,
   beat_count |-> <<0, 0, 0>>]

\* Analyzer states a successful analyze() of a full window can leave.
AnalysisOutcomes ==
  { [bass |-> 80, mid |-> 20, high |-> 10, beat |-> <<TRUE, FALSE, FALSE>>, bpm |-> 120],
    [bass |-> 10, mid |-> 60, high |-> 30, beat |-> <<FALSE, TRUE, FALSE>>, bpm |-> 120] }

\* Readings of the wall clock: the phases at time 0.0 and at time 2.244.
TimeInputs ==
  { [pulse |-> 50, bass_phase |-> 50, mid_phase |-> 95, high_phase |-> 12, on_beat |-> TRUE],
    [pulse |-> 95, bass_phase |-> 100, mid_phase |-> 29, high_phase |-> 17, on_beat |-> FALSE] }

\* The tuple run_analyzer copies out of the configuration under one guard.
Snapshot(c) ==
  [update_interval |-> c.update_interval_ms, active |-> c.active, mode |-> c.mode,
   sensitivity |-> c.sensitivity, bass_trigger |-> c.bass_color_trigger,
   mid_trigger |-> c.mid_brightness_trigger, high_trigger |-> c.high_effect_trigger]

\* ------------------------------------------------------------------- state
VARIABLES
  stop_flag,      \* AudioMonitor.stop_flag
  config,         \* the AudioVisualization behind AudioMonitor.config
  lock,           \* state of that RwLock: writer bit owner, read guards held
  queue,          \* samples in the mpsc channel, oldest first
  produced,       \* samples the audio hardware has delivered so far
  batch,          \* samples of the running callback not yet offered
  analyzer,       \* the AudioAnalyzer owned by run_analyzer
  an,             \* run_analyzer: position and locals
  cell,           \* the watch channel: value and version
  clock,          \* the monotonic clock
  con,            \* start_continuous_monitoring / apply_to_device: position and locals
  device,         \* BleLedDevice cache: is_on, rgb_color, brightness, effect
  owner,          \* the control surface: position, pending write, calls made
  consumed,       \* history: samples passed to add_sample, in order
  analyze_calls,  \* history: number of analyze() calls
  published,      \* history: inputs of the tick that published cell.value
  beat_seen,      \* history: wall-clock time (ms) of the latest analyze() that
                  \* flagged a beat in some band; 0 before the first
  last_call,      \* history: the latest call made on the BleLedDevice itself: its
                  \* name and arguments, which of its sends failed (0: none) and
                  \* the frames it wrote
  sending,        \* CommandQueue and the send_command calls in progress: the
                  \* semaphore's permits and, per caller, position and locals
  pd              \* parse_days: the argument of the call from main, the stack of
                  \* its invocations and the value returned

vars == <<stop_flag, config, lock, queue, produced, batch, analyzer, an, cell,
          clock, con, device, owner, consumed, analyze_calls, published,
          beat_seen, last_call, sending, pd>>

Contexts == {"analyzer", "consumer", "owner"}

\* No call has been made on the device yet.
NoDeviceCall == [name |-> "none", args |-> <<>>, failed_at |-> 0, frames |-> <<>>]

\* Tasks that call send_command on the same device.
Senders == {"first", "second"}

\* CommandQueue::new and no send_command called yet: `Semaphore::new(1)`.
NoSending ==
  [permits |-> 1,
   task |-> [c \in Senders |-> [pc |-> "idle", attempt |-> 0, result |-> "none",
                                outcomes |-> <<>>, calls |-> 0]]]

\* parse_days has not been called.
NoParse == [pc |-> "idle", days |-> <<>>, stack |-> <<>>, result |-> 0]

\* The owner's pending call: kind "none", "set_config" (with config) or
\* "set_active" (with active).
NoCall == [kind |-> "none", config |-> DefaultConfig, active |-> FALSE]

FirstTime == CHOOSE t \in TimeInputs : t.on_beat

Init ==
  /\ stop_flag = FALSE
  /\ config = DefaultConfig
  /\ lock = [writer |-> None, readers |-> [c \in Contexts |-> 0]]
  /\ queue = <<>>
  /\ produced = 0
  /\ batch = 0
  /\ analyzer = NewAnalyzer
  /\ an = [pc |-> "loop", now |-> 0, last_update |-> 0,
           snap |-> Snapshot(DefaultConfig), seen |-> DefaultConfig,
           audio_color |-> DefaultColor]
  /\ cell = [value |-> DefaultColor, version |-> 0]
  /\ clock = 0
  /\ con = [pc |-> "idle", pending |-> DefaultConfig, looping |-> FALSE,
            audio_color |-> DefaultColor, seen |-> 0, update_interval |-> 0,
            log_counter |-> 0, issued |-> <<>>]
  /\ device = [is_on |-> FALSE, rgb_color |-> <<255, 255, 255>>, brightness |-> 100,
               effect |-> NoEffect]
  /\ owner = [pc |-> "idle", op |-> NoCall, calls |-> 0]
  /\ consumed = <<>>
  /\ analyze_calls = 0
  /\ beat_seen = 0
  /\ last_call = NoDeviceCall
  /\ sending = NoSending
  /\ pd = NoParse
  /\ published = [view |-> InitialView, snap |-> Snapshot(DefaultConfig), now |-> 0,
                  time |-> FirstTime, config |-> DefaultConfig]

\* ------------------------------------------------------ the RwLock (config)
\* parking_lot's RwLock as the call sites use it.  read() is granted unless
\* the writer bit is set; write() sets the writer bit as soon as no other
\* writer has it and is granted once every read guard is gone, so a waiting
\* writer keeps new readers out.
ReadGranted(l) == l.writer = None

WriterBitFree(l) == l.writer = None

\* A write lock that does not wait for the read guards to be dropped.
WriteGranted_ignoring_readers(l, c) == l.writer = c

WriteGranted(l, c) == l.writer = c /\ \A r \in Contexts : l.readers[r] = 0

AcquireRead(l, c) == [l EXCEPT !.readers[c] = @ + 1]

ReleaseRead(l, c) == [l EXCEPT !.readers[c] = @ - 1]

\* A channel without a capacity.
TrySendOk_unbounded(q, receiver_alive) == receiver_alive

\* ------------------------------------------------------------ the producer
\* mpsc::Sender::try_send: fails when the channel is full or the receiver has
\* been dropped (run_analyzer has returned).
TrySendOk(q, receiver_alive) == receiver_alive /\ Len(q) < ChannelCapacity

\* The channel after a successful try_send.
Enqueue(q, sample) == Append(q, sample)

\* The audio subsystem invokes the input callback with n samples.
ProdCallback(n) ==
  /\ batch = 0
  /\ owner.pc # "dropped"
  /\ produced + n <= MaxSamples
  /\ batch' = n
  /\ UNCHANGED <<sending, pd, last_call, beat_seen, stop_flag, config, lock, queue, produced, analyzer, an, cell,
                 clock, con, device, owner, consumed, analyze_calls, published>>

\* One iteration of the callback's loop: the next sample (numbered in
\* arrival order) is offered; on failure the loop breaks and the rest of the
\* batch is dropped with it.
ProdSend ==
  /\ batch > 0
  /\ IF TrySendOk(queue, an.pc # "done")
     THEN /\ queue' = Enqueue(queue, produced + 1)
          /\ produced' = produced + 1
          /\ batch' = batch - 1
     ELSE /\ queue' = queue
          /\ produced' = produced + batch
          /\ batch' = 0
  /\ UNCHANGED <<sending, pd, last_call, beat_seen, stop_flag, config, lock, analyzer, an, cell, clock, con,
                 device, owner, consumed, analyze_calls, published>>

\* ------------------------------------------------------------ the analyzer
\* A window that keeps everything it was given.
AddSample_unbounded(a, sample) == [a EXCEPT !.samples = Append(@, sample)]

\* AudioAnalyzer::add_sample
AddSample(a, sample) ==
  LET pushed == Append(a.samples, sample)
  IN  [a EXCEPT !.samples = IF Len(pushed) > SampleSize THEN Tail(pushed) ELSE pushed]

\* AudioAnalyzer::analyze: nothing below a full window; otherwise the
\* transform either fails (state kept) or yields outcome o.
Analyze(a, ok, o) ==
  IF Len(a.samples) < SampleSize \/ ~ok THEN a ELSE [a EXCEPT !.view = o]

\* A frequency band the spectrum has no bin in (`band_values.is_empty()`).
NoBand == [m |-> -1, x |-> 0]

\* One pass of the loop of extract_energy: band i, whose bins average to
\* band_energy.
ExtractBand(a, i, band_energy) ==
  IF band_energy = NoBand THEN a
  ELSE LET e == FMul(band_energy, a.scaling)
           damped == FAdd(FMul(a.max_energy[i], F0_9995), FMul(e, F0_0005))
       IN  [a EXCEPT !.energy[i] = e,
                     !.max_energy[i] = IF FLess(damped, e) THEN e ELSE damped,
                     !.smoothed_energy[i] =
                        FAdd(FMul(a.smoothed_energy[i], F0_7), FMul(e, F0_3))]

\* AudioAnalyzer::extract_energy on a spectrum given by its three band
\* averages.
ExtractEnergy(a, spectrum) ==
  ExtractBand(ExtractBand(ExtractBand(a, 1, spectrum[1]), 2, spectrum[2]), 3, spectrum[3])

\* Entries energy_history keeps per band.
HistoryCapacity == 20

\* A tempo window that keeps every stamp.
DropOld_keeps(stamps, current_time) == stamps

\* `while current_time - front > 5.0 { pop_front }`
RECURSIVE DropOld(_, _)
DropOld(stamps, current_time) ==
  IF stamps # <<>> /\ current_time - Head(stamps) > 5000
  THEN DropOld(Tail(stamps), current_time)
  ELSE stamps

\* A tempo estimate that takes over the instantaneous value as it is.
BlendBpm_replace(estimated_bpm, stamps) ==
  IF Len(stamps) >= 4 /\ stamps[Len(stamps)] - Head(stamps) > 0
  THEN FDiv(FMul(FInt(Len(stamps) - 1), F60_0),
            FRatio(stamps[Len(stamps)] - Head(stamps), 1000))
  ELSE estimated_bpm

\* A tempo estimate that blends in every instantaneous value.
BlendBpm_unchecked(estimated_bpm, stamps) ==
  IF Len(stamps) >= 4 /\ stamps[Len(stamps)] - Head(stamps) > 0
  THEN FAdd(FMul(estimated_bpm, F0_7),
            FMul(FDiv(FMul(FInt(Len(stamps) - 1), F60_0),
                      FRatio(stamps[Len(stamps)] - Head(stamps), 1000)), F0_3))
  ELSE estimated_bpm

\* The tempo estimate after a bass beat whose time stamps are stamps.
BlendBpm(estimated_bpm, stamps) ==
  IF Len(stamps) >= 4 /\ stamps[Len(stamps)] - Head(stamps) > 0
  THEN LET time_span == FRatio(stamps[Len(stamps)] - Head(stamps), 1000)
           new_bpm == FDiv(FMul(FInt(Len(stamps) - 1), F60_0), time_span)
       IN  IF FLeq(F60_0, new_bpm) /\ FLeq(new_bpm, F200_0)
           THEN FAdd(FMul(estimated_bpm, F0_7), FMul(new_bpm, F0_3))
           ELSE estimated_bpm
  ELSE estimated_bpm

\* A beat test that takes every beat as far enough from the last one.
Apart_always(a, current_time) == TRUE

\* `current_time - self.last_beat_time > 0.2`
Apart(a, current_time) == current_time - a.last_beat_time > 200

\* A tempo tracker fed by the beats of every band.
BassBand_any(i) == TRUE

\* `if i == 0`: the bass band (bands are numbered from 1 here).
BassBand(i) == i = 1

\* One pass of the loop of detect_beats: band i at wall-clock time
\* current_time.
DetectBand(a, i, current_time) ==
  LET pushed == Append(a.energy_history[i], a.energy[i])
      history == IF Len(pushed) > HistoryCapacity THEN Tail(pushed) ELSE pushed
      normalized_energy == IF a.max_energy[i].m > 0
                           THEN FDiv(a.energy[i], a.max_energy[i]) ELSE FZero
      local_energy_avg == FDiv(FSum(history), FInt(Len(history)))
      apart == Apart(a, current_time)
      is_beat == /\ FLess(F0_3, normalized_energy)
                 /\ \/ FLess(FMul(a.prev_energy[i], a.beat_thresholds[i]), a.energy[i])
                    \/ FLess(FMul(local_energy_avg, F1_3), a.energy[i]) /\ apart
      stamps == DropOld(Append(a.beat_timestamps, current_time), current_time)
      tempo == is_beat /\ BassBand(i) /\ apart
  IN  [a EXCEPT !.energy_history[i] = history,
                !.beat_detected[i] = is_beat,
                !.beat_count[i] = IF is_beat THEN @ + 1 ELSE @,
                !.last_beat_time = IF tempo THEN current_time ELSE @,
                !.beat_timestamps = IF tempo THEN stamps ELSE @,
                !.estimated_bpm = IF tempo THEN BlendBpm(@, stamps) ELSE @,
                !.prev_energy[i] = a.energy[i]]

\* AudioAnalyzer::detect_beats
DetectBeats(a, current_time) ==
  DetectBand(DetectBand(DetectBand(a, 1, current_time), 2, current_time), 3, current_time)

\* An analyze() whose failed transform clears the beat flags.
AnalyzeWindow_clears(a, ok, spectrum, current_time) ==
  IF ok THEN DetectBeats(ExtractEnergy(a, spectrum), current_time)
  ELSE [a EXCEPT !.beat_detected = <<FALSE, FALSE, FALSE>>]

\* analyze() past its window test: the transform fails and the state is
\* kept, or it yields spectrum.
AnalyzeWindow(a, ok, spectrum, current_time) ==
  IF ok THEN DetectBeats(ExtractEnergy(a, spectrum), current_time) ELSE a

\* An analyze() that does not wait for a full window.
AnalyzeSpectrum_eager(a, ok, spectrum, current_time) ==
  AnalyzeWindow(a, ok, spectrum, current_time)

\* AudioAnalyzer::analyze with the struct's fields: nothing below a full
\* window.
AnalyzeSpectrum(a, ok, spectrum, current_time) ==
  IF Len(a.samples) < SampleSize THEN a
  ELSE AnalyzeWindow(a, ok, spectrum, current_time)

\* AudioAnalyzer::get_normalized_energy as an f32.
BandRatio(a, i) ==
  IF a.max_energy[i].m > 0 THEN FDiv(a.smoothed_energy[i], a.max_energy[i]) ELSE FZero

GetNormalizedEnergy(a, range) ==
  CASE range = "Bass" -> BandRatio(a, 1)
    [] range = "Mid" -> BandRatio(a, 2)
    [] range = "High" -> BandRatio(a, 3)
    [] range = "Full" ->
         FDiv(FSum(<<BandRatio(a, 1), BandRatio(a, 2), BandRatio(a, 3)>>), F3_0)

\* A receiver that takes the newest queued sample.
TryRecv_newest(q) == [sample |-> q[Len(q)], rest |-> SubSeq(q, 1, Len(q) - 1)]

\* mpsc::Receiver::try_recv on a non-empty channel: the oldest queued sample
\* is taken out.
TryRecv(q) == [sample |-> Head(q), rest |-> Tail(q)]

\* The first three components of the configuration tuple are read ...
ReadFirst(snap, c) ==
  [snap EXCEPT !.update_interval = c.update_interval_ms, !.active = c.active,
               !.mode = c.mode]

\* A reader that lowers the sensitivity when a single band is selected.
ReadRest_by_range(snap, c) ==
  [snap EXCEPT !.sensitivity = IF c.range = "Full" THEN c.sensitivity
                               ELSE c.sensitivity \div 2,
               !.bass_trigger = c.bass_color_trigger,
               !.mid_trigger = c.mid_brightness_trigger,
               !.high_trigger = c.high_effect_trigger]

\* ... and then the other four.
ReadRest(snap, c) ==
  [snap EXCEPT !.sensitivity = c.sensitivity, !.bass_trigger = c.bass_color_trigger,
               !.mid_trigger = c.mid_brightness_trigger,
               !.high_trigger = c.high_effect_trigger]

\* `now.duration_since(last_update) >= update_interval`
CadenceElapsed(now, last_update, update_interval) == now - last_update >= update_interval

\* A loop that restarts the tick timer inside `if is_active`.
last_update_after_active(now, last_update, is_active) ==
  IF is_active THEN now ELSE last_update

\* `last_update = now;` at the end of the tick, after the `if is_active` block.
last_update_after(now, last_update, is_active) == now

\* A loop that publishes whether or not the visualization is active.
ShouldPublish_always(snap) == TRUE

\* `if is_active`
ShouldPublish(snap) == snap.active

\* watch::Sender::send: the value replaces the stored one, the version grows.
WatchSend(c, v) == [value |-> v, version |-> c.version + 1]

\* A receiver that keeps handing out the value it was created with.
WatchBorrow_stale(c) == [value |-> DefaultColor, version |-> 0]

\* watch::Receiver::borrow: the stored value (with its version).
WatchBorrow(c) == c

\* `while !stop_flag.load(Ordering::Relaxed)`
AnLoop ==
  /\ an.pc = "loop"
  /\ an' = [an EXCEPT !.pc = IF stop_flag THEN "done" ELSE "drain"]
  /\ UNCHANGED <<sending, pd, last_call, beat_seen, stop_flag, config, lock, queue, produced, batch, analyzer, cell,
                 clock, con, device, owner, consumed, analyze_calls, published>>

\* `while let Ok(sample) = sample_rx.try_recv() { analyzer.add_sample(sample) }`,
\* one iteration; when the channel is empty the loop ends and `now` is read.
AnDrain ==
  /\ an.pc = "drain"
  /\ IF queue # <<>>
     THEN /\ queue' = TryRecv(queue).rest
          /\ analyzer' = AddSample(analyzer, TryRecv(queue).sample)
          /\ consumed' = Append(consumed, TryRecv(queue).sample)
          /\ an' = an
     ELSE /\ an' = [an EXCEPT !.pc = "lock", !.now = clock]
          /\ UNCHANGED <<sending, pd, last_call, beat_seen, queue, analyzer, consumed>>
  /\ UNCHANGED <<sending, pd, last_call, beat_seen, stop_flag, config, lock, produced, batch, cell, clock, con,
                 device, owner, analyze_calls, published>>

\* `let config_guard = config.read();`
AnLock ==
  /\ an.pc = "lock"
  /\ ReadGranted(lock)
  /\ lock' = AcquireRead(lock, "analyzer")
  /\ an' = [an EXCEPT !.pc = "read1", !.seen = config]
  /\ UNCHANGED <<sending, pd, last_call, beat_seen, stop_flag, config, queue, produced, batch, analyzer, cell, clock,
                 con, device, owner, consumed, analyze_calls, published>>

\* The first fields of the tuple are copied out of the guard.
AnRead1 ==
  /\ an.pc = "read1"
  /\ an' = [an EXCEPT !.pc = "read2", !.snap = ReadFirst(an.snap, config)]
  /\ UNCHANGED <<sending, pd, last_call, beat_seen, stop_flag, config, lock, queue, produced, batch, analyzer, cell,
                 clock, con, device, owner, consumed, analyze_calls, published>>

\* The remaining fields are copied and the guard is dropped at the block's end.
AnRead2 ==
  /\ an.pc = "read2"
  /\ an' = [an EXCEPT !.pc = "tick", !.snap = ReadRest(an.snap, config)]
  /\ lock' = ReleaseRead(lock, "analyzer")
  /\ UNCHANGED <<sending, pd, last_call, beat_seen, stop_flag, config, queue, produced, batch, analyzer, cell, clock,
                 con, device, owner, consumed, analyze_calls, published>>

\* `if now.duration_since(last_update) >= update_interval { ... }` followed by
\* the start of `sleep(1 ms)`.  ok and o are the transform's result, t the
\* wall clock reading of the tick.
AnTick(ok, o, t) ==
  /\ an.pc = "tick"
  /\ IF CadenceElapsed(an.now, an.last_update, an.snap.update_interval)
     THEN LET after == Analyze(analyzer, ok, o)
              color == Decide(an.audio_color, after.view, an.snap, t)
          IN  /\ analyzer' = after
              /\ analyze_calls' = analyze_calls + 1
              /\ IF ShouldPublish(an.snap)
                 THEN /\ cell' = WatchSend(cell, color)
                      /\ published' = [view |-> after.view, snap |-> an.snap, time |-> t,
                                       now |-> an.now,
                                       config |-> an.seen]
                      /\ an' = [an EXCEPT !.pc = "sleep", !.audio_color = color,
                                          !.last_update =
                                            last_update_after(an.now, an.last_update, TRUE)]
                 ELSE /\ an' = [an EXCEPT !.pc = "sleep",
                                          !.last_update =
                                            last_update_after(an.now, an.last_update, FALSE)]
                      /\ UNCHANGED <<sending, pd, last_call, beat_seen, cell, published>>
     ELSE /\ an' = [an EXCEPT !.pc = "sleep"]
          /\ UNCHANGED <<sending, pd, last_call, beat_seen, analyzer, analyze_calls, cell, published>>
  /\ UNCHANGED <<sending, pd, last_call, beat_seen, stop_flag, config, lock, queue, produced, batch, clock, con,
                 device, owner, consumed>>

\* `sleep(Duration::from_millis(1)).await` completes.
AnWake ==
  /\ an.pc = "sleep"
  /\ an' = [an EXCEPT !.pc = "loop"]
  /\ UNCHANGED <<sending, pd, last_call, beat_seen, stop_flag, config, lock, queue, produced, batch, analyzer, cell,
                 clock, con, device, owner, consumed, analyze_calls, published>>

\* The monotonic clock advances.
Tick ==
  /\ clock < MaxClock
  /\ clock' = clock + 1
  /\ UNCHANGED <<sending, pd, last_call, beat_seen, stop_flag, config, lock, queue, produced, batch, analyzer, an,
                 cell, con, device, owner, consumed, analyze_calls, published>>

\* --------------------------------------------------------------- the owner
\* set_config replaces the whole struct, set_active one field.
StoreConfig(c, op) ==
  IF op.kind = "set_config" THEN op.config ELSE [c EXCEPT !.active = op.active]

OwnerCalls ==
  {[kind |-> "set_config", config |-> c, active |-> FALSE] : c \in ConfigInputs}
  \cup {[kind |-> "set_active", config |-> DefaultConfig, active |-> b] : b \in BOOLEAN}

\* set_config(c) or set_active(b) is called: `self.config.write()` begins.
OwnCall(op) ==
  /\ owner.pc = "idle"
  /\ owner.calls < MaxWrites
  /\ owner' = [pc |-> "acquire", op |-> op, calls |-> owner.calls + 1]
  /\ UNCHANGED <<sending, pd, last_call, beat_seen, stop_flag, config, lock, queue, produced, batch, analyzer, an,
                 cell, clock, con, device, consumed, analyze_calls, published>>

\* The writer bit is taken; read guards may still be out.
OwnAcquire ==
  /\ owner.pc = "acquire"
  /\ WriterBitFree(lock)
  /\ lock' = [lock EXCEPT !.writer = "owner"]
  /\ owner' = [owner EXCEPT !.pc = "drain"]
  /\ UNCHANGED <<sending, pd, last_call, beat_seen, stop_flag, config, queue, produced, batch, analyzer, an, cell,
                 clock, con, device, consumed, analyze_calls, published>>

\* The write guard is granted, the store is made and the guard dropped.
OwnCommit ==
  /\ owner.pc = "drain"
  /\ WriteGranted(lock, "owner")
  /\ config' = StoreConfig(config, owner.op)
  /\ lock' = [lock EXCEPT !.writer = None]
  /\ owner' = [owner EXCEPT !.pc = "idle", !.op = NoCall]
  /\ UNCHANGED <<sending, pd, last_call, beat_seen, stop_flag, queue, produced, batch, analyzer, an, cell, clock,
                 con, device, consumed, analyze_calls, published>>

\* A stop() that flips the flag instead of raising it.
Stop_toggle ==
  /\ owner.pc # "dropped"
  /\ stop_flag' = ~stop_flag
  /\ UNCHANGED <<sending, pd, last_call, beat_seen, config, lock, queue, produced, batch, analyzer, an, cell, clock,
                 con, device, owner, consumed, analyze_calls, published>>

\* AudioMonitor::stop; the flag is shared, any context may raise it.
Stop ==
  /\ owner.pc # "dropped"
  /\ stop_flag' = TRUE
  /\ UNCHANGED <<sending, pd, last_call, beat_seen, config, lock, queue, produced, batch, analyzer, an, cell, clock,
                 con, device, owner, consumed, analyze_calls, published>>

\* Drop for AudioMonitor: no call on it is running or possible afterwards.
Drop ==
  /\ owner.pc = "idle"
  /\ con.pc \in {"idle", "configured", "done", "err"}
  /\ stop_flag' = TRUE
  /\ owner' = [owner EXCEPT !.pc = "dropped"]
  /\ UNCHANGED <<sending, pd, last_call, beat_seen, config, lock, queue, produced, batch, analyzer, an, cell, clock,
                 con, device, consumed, analyze_calls, published>>

\* -------------------------------------------------------------- the device
\* The cached state after each command; ok is whether send_command succeeded.
\* A power_on that caches the state before the command has gone through.
PowerOn_eager(d, ok) == [d EXCEPT !.is_on = TRUE]

PowerOn(d, ok) == IF ok THEN [d EXCEPT !.is_on = TRUE] ELSE d

PowerOff(d, ok) == IF ok THEN [d EXCEPT !.is_on = FALSE] ELSE d

\* A set_color that leaves the cached effect alone.
SetColor_keeps_effect(d, r, g, b, ok) ==
  IF ok THEN [d EXCEPT !.rgb_color = <<r, g, b>>] ELSE d

SetColor(d, r, g, b, ok) ==
  IF ok THEN [d EXCEPT !.rgb_color = <<r, g, b>>, !.effect = NoEffect] ELSE d

\* A set_brightness that stores its argument as given.
SetBrightness_raw(d, value, ok) == IF ok THEN [d EXCEPT !.brightness = value] ELSE d

SetBrightness(d, value, ok) == IF ok THEN [d EXCEPT !.brightness = Min(value, 100)] ELSE d

SetEffect(d, value, ok) == IF ok THEN [d EXCEPT !.effect = value] ELSE d

\* The frames of the fixture's protocol.
DisableEffectFrame == <<126, 0, 5, 1, 0, 0, 0, 0, 239>>
ColorFrame(r, g, b) == <<126, 0, 5, 3, r, g, b, 0, 239>>
BrightnessFrame(value) == <<126, 0, 1, value, 0, 0, 0, 0, 239>>
EffectFrame(value) == <<126, 0, 3, value, 3, 0, 0, 0, 239>>

\* The send_command calls of set_color, in order.
SetColorFrames(d, r, g, b) ==
  (IF d.effect # NoEffect THEN <<DisableEffectFrame>> ELSE <<>>) \o <<ColorFrame(r, g, b)>>

\* `send_command(..).await?` over frames: the frames written when the
\* failed_at-th send returns an error (0: none does).
Written(frames, failed_at) ==
  IF failed_at = 0 THEN frames ELSE SubSeq(frames, 1, failed_at - 1)

\* Calls made on the device itself, one action per call; failed_at is the
\* send that fails after its retries.
DeviceChannels == {0, 255}
DeviceBrightnesses == {0, 50, 100, 101, 255}
DeviceEffects == {EFFECTS_crossfade_red, EFFECTS_jump_red_green_blue}

DevPowerOn(failed_at) ==
  /\ device' = PowerOn(device, failed_at = 0)
  /\ last_call' = [name |-> "power_on", args |-> <<>>, failed_at |-> failed_at,
                   frames |-> Written(<<"turn_on_cmd">>, failed_at)]
  /\ UNCHANGED <<sending, pd, stop_flag, config, lock, queue, produced, batch, analyzer, an, cell,
                 clock, con, owner, consumed, analyze_calls, published, beat_seen>>

DevPowerOff(failed_at) ==
  /\ device' = PowerOff(device, failed_at = 0)
  /\ last_call' = [name |-> "power_off", args |-> <<>>, failed_at |-> failed_at,
                   frames |-> Written(<<"turn_off_cmd">>, failed_at)]
  /\ UNCHANGED <<sending, pd, stop_flag, config, lock, queue, produced, batch, analyzer, an, cell,
                 clock, con, owner, consumed, analyze_calls, published, beat_seen>>

DevSetColor(r, g, b, failed_at) ==
  /\ failed_at <= Len(SetColorFrames(device, r, g, b))
  /\ device' = SetColor(device, r, g, b, failed_at = 0)
  /\ last_call' = [name |-> "set_color", args |-> <<r, g, b>>, failed_at |-> failed_at,
                   frames |-> Written(SetColorFrames(device, r, g, b), failed_at)]
  /\ UNCHANGED <<sending, pd, stop_flag, config, lock, queue, produced, batch, analyzer, an, cell,
                 clock, con, owner, consumed, analyze_calls, published, beat_seen>>

DevSetBrightness(value, failed_at) ==
  /\ device' = SetBrightness(device, value, failed_at = 0)
  /\ last_call' = [name |-> "set_brightness", args |-> <<value>>, failed_at |-> failed_at,
                   frames |-> Written(<<BrightnessFrame(Min(value, 100))>>, failed_at)]
  /\ UNCHANGED <<sending, pd, stop_flag, config, lock, queue, produced, batch, analyzer, an, cell,
                 clock, con, owner, consumed, analyze_calls, published, beat_seen>>

DevSetEffect(value, failed_at) ==
  /\ device' = SetEffect(device, value, failed_at = 0)
  /\ last_call' = [name |-> "set_effect", args |-> <<value>>, failed_at |-> failed_at,
                   frames |-> Written(<<EffectFrame(value)>>, failed_at)]
  /\ UNCHANGED <<sending, pd, stop_flag, config, lock, queue, produced, batch, analyzer, an, cell,
                 clock, con, owner, consumed, analyze_calls, published, beat_seen>>

\* ---------------------------------------------------------- send_command
\* `let max_retries = 3;`
max_retries == 3

\* A retry loop whose last failure leaves the loop instead of returning.
WriteAttempt_falls_through(t, ok) ==
  IF ~(t.attempt < max_retries)
  THEN [t EXCEPT !.pc = "release", !.result = "CommandTimeout"]
  ELSE IF ok
  THEN [t EXCEPT !.pc = "release", !.result = "Ok", !.outcomes = Append(@, TRUE)]
  ELSE [t EXCEPT !.pc = "write", !.attempt = @ + 1, !.outcomes = Append(@, FALSE)]

\* One evaluation of `while attempt < max_retries { match peripheral.write(..).await
\* { .. } }`: ok is the result of the write.  After the loop comes
\* `Err(Error::CommandTimeout(max_retries))`.
WriteAttempt(t, ok) ==
  IF ~(t.attempt < max_retries)
  THEN [t EXCEPT !.pc = "release", !.result = "CommandTimeout"]
  ELSE IF ok
  THEN [t EXCEPT !.pc = "release", !.result = "Ok", !.outcomes = Append(@, TRUE)]
  ELSE IF t.attempt + 1 < max_retries
  THEN [t EXCEPT !.pc = "backoff", !.attempt = @ + 1, !.outcomes = Append(@, FALSE)]
  ELSE [t EXCEPT !.pc = "release", !.result = "BleError", !.attempt = @ + 1,
                 !.outcomes = Append(@, FALSE)]

\* send_command is called: `self.command_queue.execute(async move { .. })`
\* begins and waits for the permit.
SendCall(c) ==
  /\ sending.task[c].pc = "idle"
  /\ sending.task[c].calls < MaxSends
  /\ sending' = [sending EXCEPT !.task[c] = [pc |-> "acquire", attempt |-> 0,
                                             result |-> "none", outcomes |-> <<>>,
                                             calls |-> @.calls + 1]]
  /\ UNCHANGED <<pd, stop_flag, config, lock, queue, produced, batch, analyzer, an, cell,
                 clock, con, device, owner, consumed, analyze_calls, published,
                 beat_seen, last_call>>

\* `self.semaphore.acquire().await` is granted; the rate-limit wait follows
\* and the future starts with `attempt = 0`.
SendAcquire(c) ==
  /\ sending.task[c].pc = "acquire"
  /\ sending.permits > 0
  /\ sending' = [sending EXCEPT !.permits = @ - 1, !.task[c].pc = "write"]
  /\ UNCHANGED <<pd, stop_flag, config, lock, queue, produced, batch, analyzer, an, cell,
                 clock, con, device, owner, consumed, analyze_calls, published,
                 beat_seen, last_call>>

\* `peripheral.write(..).await` returns.
SendWrite(c, ok) ==
  /\ sending.task[c].pc = "write"
  /\ sending' = [sending EXCEPT !.task[c] = WriteAttempt(@, ok)]
  /\ UNCHANGED <<pd, stop_flag, config, lock, queue, produced, batch, analyzer, an, cell,
                 clock, con, device, owner, consumed, analyze_calls, published,
                 beat_seen, last_call>>

\* `tokio::time::sleep(300 ms).await` before the next attempt completes.
SendRetry(c) ==
  /\ sending.task[c].pc = "backoff"
  /\ sending' = [sending EXCEPT !.task[c].pc = "write"]
  /\ UNCHANGED <<pd, stop_flag, config, lock, queue, produced, batch, analyzer, an, cell,
                 clock, con, device, owner, consumed, analyze_calls, published,
                 beat_seen, last_call>>

\* execute stores the time, returns the future's result and drops the permit.
SendRelease(c) ==
  /\ sending.task[c].pc = "release"
  /\ sending' = [sending EXCEPT !.permits = @ + 1, !.task[c].pc = "idle"]
  /\ UNCHANGED <<pd, stop_flag, config, lock, queue, produced, batch, analyzer, an, cell,
                 clock, con, device, owner, consumed, analyze_calls, published,
                 beat_seen, last_call>>

\* ------------------------------------------------------------- parse_days
\* WEEK_DAYS (schedule.rs)
WEEK_DAYS_monday == 1
WEEK_DAYS_tuesday == 2
WEEK_DAYS_wednesday == 4
WEEK_DAYS_thursday == 8
WEEK_DAYS_friday == 16
WEEK_DAYS_saturday == 32
WEEK_DAYS_sunday == 64
WEEK_DAYS_all == 127
WEEK_DAYS_week_days == 31
WEEK_DAYS_weekend_days == 96

\* A string is the sequence of its characters.  str::to_lowercase, on the
\* capital letters the inputs contain.
LowerChar(c) ==
  CASE c = "M" -> "m" [] c = "F" -> "f" [] OTHER -> c

ToLowercase(s) == [i \in 1..Len(s) |-> LowerChar(s[i])]

\* str::split(','): the pieces between the commas, empty ones included; a
\* string without a comma is its own only piece.
RECURSIVE Split(_)
Split(s) ==
  IF \E i \in 1..Len(s) : s[i] = ","
  THEN LET i == CHOOSE i \in 1..Len(s) : s[i] = "," /\ \A j \in 1..(i - 1) : s[j] # ","
       IN  <<SubSeq(s, 1, i - 1)>> \o Split(SubSeq(s, i + 1, Len(s)))
  ELSE <<s>>

\* `a | b` on u8.
RECURSIVE BitOr(_, _)
BitOr(a, b) ==
  IF a = 0 THEN b
  ELSE IF b = 0 THEN a
  ELSE (IF a % 2 = 1 \/ b % 2 = 1 THEN 1 ELSE 0) + 2 * BitOr(a \div 2, b \div 2)

\* The value of the `_` arm in DayMatch.
Composite == -1

\* `match days.to_lowercase().as_str() { .. }`: the constant of a known name.
DayMatch(days) ==
  LET d == ToLowercase(days)
  IN
  CASE
    d = <<"m", "o", "n">> \/ d = <<"m", "o", "n", "d", "a", "y">> -> WEEK_DAYS_monday
    []
    d = <<"t", "u", "e">> \/ d = <<"t", "u", "e", "s", "d", "a", "y">> -> WEEK_DAYS_tuesday
    []
    d = <<"w", "e", "d">> \/ d = <<"w", "e", "d", "n", "e", "s", "d", "a", "y">> -> WEEK_DAYS_wednesday
    []
    d = <<"t", "h", "u">> \/ d = <<"t", "h", "u", "r", "s", "d", "a", "y">> -> WEEK_DAYS_thursday
    []
    d = <<"f", "r", "i">> \/ d = <<"f", "r", "i", "d", "a", "y">> -> WEEK_DAYS_friday
    []
    d = <<"s", "a", "t">> \/ d = <<"s", "a", "t", "u", "r", "d", "a", "y">> -> WEEK_DAYS_saturday
    []
    d = <<"s", "u", "n">> \/ d = <<"s", "u", "n", "d", "a", "y">> -> WEEK_DAYS_sunday
    []
    d = <<"a", "l", "l">> -> WEEK_DAYS_all
    []
    d = <<"w", "e", "e", "k", "d", "a", "y", "s">> -> WEEK_DAYS_week_days
    []
    d = <<"w", "e", "e", "k", "e", "n", "d">> -> WEEK_DAYS_weekend_days
    []
    OTHER -> Composite

\* Day arguments of the `schedule` commands.
DaysInputs ==
  { <<"m", "o", "n">>,
    <<"M", "o", "n", "d", "a", "y">>,
    <<"w", "e", "e", "k", "e", "n", "d">>,
    <<"a", "l", "l">>,
    <<"m", "o", "n", ",", "t", "u", "e">>,
    <<"s", "a", "t", ",", "s", "u", "n", ",", "f", "r", "i">>,
    <<"w", "e", "e", "k", "d", "a", "y", "s", ",", "s", "u", "n">>,
    <<"m", "o", "n", "d">>,
    <<>>,
    <<"m", "o", "n", ",">>,
    <<" ", "m", "o", "n">>,
    <<"m", "o", "n", ",", " ", "t", "u", "e">>,
    <<"f", "r", "i", ",", "F", "r", "y">>,
    <<"t", "u", "e", ",", "w", "e", "d", ",", "t", "h", "u">>,
    <<"s", "a", "t", "u", "r", "d", "a", "y">>,
    <<"a", "l", "l", ",", "w", "e", "e", "k", "e", "n", "d">> }

\* The value v returned by the invocation on top of the stack: it goes to the
\* caller's `combined |= day_value`, or out of the outermost call.
ReturnDays(p, v) ==
  IF Len(p.stack) = 1
  THEN [p EXCEPT !.pc = "returned", !.stack = <<>>, !.result = v]
  ELSE LET caller == p.stack[Len(p.stack) - 1]
       IN  [p EXCEPT !.stack = Append(SubSeq(p.stack, 1, Len(p.stack) - 2),
                                      [caller EXCEPT !.combined = BitOr(@, v),
                                                     !.items = Tail(@)])]

\* The `_` arm is entered: `let mut combined = 0; for day in days.split(',')`.
EnterComposite(p) ==
  LET top == p.stack[Len(p.stack)]
  IN  [p EXCEPT !.stack[Len(p.stack)] =
                  [top EXCEPT !.at = "for", !.items = Split(top.days)]]

\* main calls parse_days(&days).
ParseDaysCall(days) ==
  /\ pd.pc = "idle"
  /\ pd' = [pc |-> "running", days |-> days, result |-> 0,
            stack |-> <<[days |-> days, at |-> "match", items |-> <<>>, combined |-> 0]>>]
  /\ UNCHANGED <<sending, stop_flag, config, lock, queue, produced, batch, analyzer, an,
                 cell, clock, con, device, owner, consumed, analyze_calls, published,
                 beat_seen, last_call>>

\* The innermost invocation evaluates its match.
ParseDaysMatch ==
  /\ pd.pc = "running"
  /\ pd.stack[Len(pd.stack)].at = "match"
  /\ pd' = IF DayMatch(pd.stack[Len(pd.stack)].days) # Composite
           THEN ReturnDays(pd, DayMatch(pd.stack[Len(pd.stack)].days))
           ELSE EnterComposite(pd)
  /\ UNCHANGED <<sending, stop_flag, config, lock, queue, produced, batch, analyzer, an,
                 cell, clock, con, device, owner, consumed, analyze_calls, published,
                 beat_seen, last_call>>

\* The innermost invocation is in its for loop: it calls parse_days(day) on
\* the next piece, or returns combined when the pieces are used up.
ParseDaysFor ==
  /\ pd.pc = "running"
  /\ pd.stack[Len(pd.stack)].at = "for"
  /\ LET top == pd.stack[Len(pd.stack)]
     IN  IF top.items = <<>>
         THEN pd' = ReturnDays(pd, top.combined)
         ELSE /\ Len(pd.stack) < MaxDepth
              /\ pd' = [pd EXCEPT !.stack = Append(@, [days |-> Head(top.items), at |-> "match",
                                                       items |-> <<>>, combined |-> 0])]
  /\ UNCHANGED <<sending, stop_flag, config, lock, queue, produced, batch, analyzer, an,
                 cell, clock, con, device, owner, consumed, analyze_calls, published,
                 beat_seen, last_call>>

\* ------------------------------------------------------------ the consumer
\* A `?` that forgets the error and goes on.
Propagate_ignore(ok, next) == next

\* `expr.await?`: on Err the function returns it at once, otherwise it goes on.
Propagate(ok, next) == IF ok THEN next ELSE "err"

\* `if let Some(effect) = audio_color.effect` that never matches.
ColorCommand_always_color(c) == "set_color"

\* `if let Some(effect) = audio_color.effect { set_effect } else { set_color }`
ColorCommand(c) == IF c.effect # NoEffect THEN "set_effect" ELSE "set_color"

\* A device command handed to the fixture and how it ended.
Issue(log, cmd, ok) == Append(log, [cmd |-> cmd, ok |-> ok])

\* The task of run_audio_visualization (main.rs).  A position named await_*
\* is the task suspended on that device command.

\* Lines 415-419: get_config() and the command line's values written over
\* the copy.
Configure(c, cli) ==
  [c EXCEPT !.mode = cli.mode, !.range = cli.range, !.sensitivity = cli.sensitivity,
            !.update_interval_ms = cli.update_ms]

\* `let mut config = audio_monitor.get_config(); config.mode = ...`
ConConfigure(cli) ==
  /\ con.pc = "idle"
  /\ owner.pc # "dropped"
  /\ ReadGranted(lock)
  /\ con' = [con EXCEPT !.pc = "cfg_acquire", !.pending = Configure(config, cli)]
  /\ UNCHANGED <<sending, pd, last_call, beat_seen, stop_flag, config, lock, queue, produced, batch, analyzer, an,
                 cell, clock, device, owner, consumed, analyze_calls, published>>

\* `audio_monitor.set_config(config)`: the writer bit is taken ...
ConCfgAcquire ==
  /\ con.pc = "cfg_acquire"
  /\ WriterBitFree(lock)
  /\ lock' = [lock EXCEPT !.writer = "consumer"]
  /\ con' = [con EXCEPT !.pc = "cfg_drain"]
  /\ UNCHANGED <<sending, pd, last_call, beat_seen, stop_flag, config, queue, produced, batch, analyzer, an, cell,
                 clock, device, owner, consumed, analyze_calls, published>>

\* ... and the struct is stored.
ConCfgCommit ==
  /\ con.pc = "cfg_drain"
  /\ WriteGranted(lock, "consumer")
  /\ config' = con.pending
  /\ lock' = [lock EXCEPT !.writer = None]
  /\ con' = [con EXCEPT !.pc = "configured"]
  /\ UNCHANGED <<sending, pd, last_call, beat_seen, stop_flag, queue, produced, batch, analyzer, an, cell, clock,
                 device, owner, consumed, analyze_calls, published>>

\* start_continuous_monitoring is called: set_active(true) begins.
ConStart ==
  /\ con.pc = "configured"
  /\ owner.pc # "dropped"
  /\ con' = [con EXCEPT !.pc = "sa_acquire", !.looping = TRUE]
  /\ UNCHANGED <<sending, pd, last_call, beat_seen, stop_flag, config, lock, queue, produced, batch, analyzer, an,
                 cell, clock, device, owner, consumed, analyze_calls, published>>

\* apply_to_device is called on its own (it is public).
ConApplyOnce ==
  /\ con.pc = "configured"
  /\ owner.pc # "dropped"
  /\ con' = [con EXCEPT !.pc = "ap_borrow", !.looping = FALSE]
  /\ UNCHANGED <<sending, pd, last_call, beat_seen, stop_flag, config, lock, queue, produced, batch, analyzer, an,
                 cell, clock, device, owner, consumed, analyze_calls, published>>

ConSetActiveAcquire ==
  /\ con.pc = "sa_acquire"
  /\ WriterBitFree(lock)
  /\ lock' = [lock EXCEPT !.writer = "consumer"]
  /\ con' = [con EXCEPT !.pc = "sa_drain"]
  /\ UNCHANGED <<sending, pd, last_call, beat_seen, stop_flag, config, queue, produced, batch, analyzer, an, cell,
                 clock, device, owner, consumed, analyze_calls, published>>

\* set_active(true) stores and returns; `if !device.is_on { power_on().await? }`
\* starts.
ConSetActiveCommit ==
  /\ con.pc = "sa_drain"
  /\ WriteGranted(lock, "consumer")
  /\ config' = [config EXCEPT !.active = TRUE]
  /\ lock' = [lock EXCEPT !.writer = None]
  /\ con' = [con EXCEPT !.pc = IF device.is_on THEN "interval" ELSE "await_power0"]
  /\ UNCHANGED <<sending, pd, last_call, beat_seen, stop_flag, queue, produced, batch, analyzer, an, cell, clock,
                 device, owner, consumed, analyze_calls, published>>

ConPower0(ok) ==
  /\ con.pc = "await_power0"
  /\ device' = PowerOn(device, ok)
  /\ con' = [con EXCEPT !.pc = Propagate(ok, "interval")]
  /\ UNCHANGED <<sending, pd, last_call, beat_seen, stop_flag, config, lock, queue, produced, batch, analyzer, an,
                 cell, clock, owner, consumed, analyze_calls, published>>

\* `Duration::from_millis(self.config.read().update_interval_ms as u64)`
ConInterval ==
  /\ con.pc = "interval"
  /\ ReadGranted(lock)
  /\ con' = [con EXCEPT !.pc = "cond", !.update_interval = config.update_interval_ms]
  /\ UNCHANGED <<sending, pd, last_call, beat_seen, stop_flag, config, lock, queue, produced, batch, analyzer, an,
                 cell, clock, device, owner, consumed, analyze_calls, published>>

\* `while self.config.read().active && !self.stop_flag.load(..)`
ConCond ==
  /\ con.pc = "cond"
  /\ ReadGranted(lock)
  /\ con' = [con EXCEPT !.pc = IF config.active /\ ~stop_flag THEN "ap_borrow" ELSE "done"]
  /\ UNCHANGED <<sending, pd, last_call, beat_seen, stop_flag, config, lock, queue, produced, batch, analyzer, an,
                 cell, clock, device, owner, consumed, analyze_calls, published>>

\* apply_to_device: `let audio_color = *self.color_rx.borrow();`
ApBorrow ==
  /\ con.pc = "ap_borrow"
  /\ con' = [con EXCEPT !.pc = "ap_lock", !.audio_color = WatchBorrow(cell).value,
                        !.seen = WatchBorrow(cell).version, !.issued = <<>>]
  /\ UNCHANGED <<sending, pd, last_call, beat_seen, stop_flag, config, lock, queue, produced, batch, analyzer, an,
                 cell, clock, device, owner, consumed, analyze_calls, published>>

\* Where apply_to_device goes once its log line is written.
AfterLog(d) == IF d.is_on THEN "await_color" ELSE "await_power"

\* `let config = self.config.read();` - the guard lives to the end of the
\* function.  The log line of BpmSync calls get_estimated_bpm next.
ApLock ==
  /\ con.pc = "ap_lock"
  /\ ReadGranted(lock)
  /\ lock' = AcquireRead(lock, "consumer")
  /\ con' = [con EXCEPT !.pc = IF config.mode = "BpmSync" THEN "ap_bpm" ELSE AfterLog(device)]
  /\ UNCHANGED <<sending, pd, last_call, beat_seen, stop_flag, config, queue, produced, batch, analyzer, an, cell,
                 clock, device, owner, consumed, analyze_calls, published>>

\* get_estimated_bpm -> get_config -> `self.config.read()`: a second read
\* guard, taken and dropped inside get_config.
ApBpm ==
  /\ con.pc = "ap_bpm"
  /\ ReadGranted(lock)
  /\ con' = [con EXCEPT !.pc = AfterLog(device)]
  /\ UNCHANGED <<sending, pd, last_call, beat_seen, stop_flag, config, lock, queue, produced, batch, analyzer, an,
                 cell, clock, device, owner, consumed, analyze_calls, published>>

\* `device.power_on().await?` returns.
ApPower(ok) ==
  /\ con.pc = "await_power"
  /\ device' = PowerOn(device, ok)
  /\ con' = [con EXCEPT !.pc = Propagate(ok, "await_color"),
                        !.issued = Issue(@, "power_on", ok)]
  /\ lock' = IF con'.pc = "err" THEN ReleaseRead(lock, "consumer") ELSE lock
  /\ UNCHANGED <<sending, pd, last_call, beat_seen, stop_flag, config, queue, produced, batch, analyzer, an, cell,
                 clock, owner, consumed, analyze_calls, published>>

\* `set_effect(effect).await?` or `set_color(r, g, b).await?` returns.
ApColor(ok) ==
  /\ con.pc = "await_color"
  /\ device' = IF ColorCommand(con.audio_color) = "set_effect"
               THEN SetEffect(device, con.audio_color.effect, ok)
               ELSE SetColor(device, con.audio_color.r, con.audio_color.g,
                             con.audio_color.b, ok)
  /\ con' = [con EXCEPT !.pc = Propagate(ok, "await_bright"),
                        !.issued = Issue(@, ColorCommand(con.audio_color), ok)]
  /\ lock' = IF con'.pc = "err" THEN ReleaseRead(lock, "consumer") ELSE lock
  /\ UNCHANGED <<sending, pd, last_call, beat_seen, stop_flag, config, queue, produced, batch, analyzer, an, cell,
                 clock, owner, consumed, analyze_calls, published>>

\* `set_brightness(..).await?` returns and apply_to_device with it (its guard
\* is dropped); the monitoring loop counts the update.
ApBright(ok) ==
  /\ con.pc = "await_bright"
  /\ device' = SetBrightness(device, con.audio_color.brightness, ok)
  /\ lock' = ReleaseRead(lock, "consumer")
  /\ con' = [con EXCEPT !.pc = Propagate(ok, IF ~con.looping THEN "done"
                                               ELSE IF con.log_counter + 1 >= LogPeriod
                                               THEN "lg_bpm"
                                               ELSE "sleep"),
                        !.log_counter = IF ok /\ con.looping THEN con.log_counter + 1 ELSE @,
                        !.issued = Issue(@, "set_brightness", ok)]
  /\ UNCHANGED <<sending, pd, last_call, beat_seen, stop_flag, config, queue, produced, batch, analyzer, an, cell,
                 clock, owner, consumed, analyze_calls, published>>

\* log_detailed_analysis: get_estimated_bpm's read of the configuration ...
LgBpm ==
  /\ con.pc = "lg_bpm"
  /\ ReadGranted(lock)
  /\ con' = [con EXCEPT !.pc = "lg_lock"]
  /\ UNCHANGED <<sending, pd, last_call, beat_seen, stop_flag, config, lock, queue, produced, batch, analyzer, an,
                 cell, clock, device, owner, consumed, analyze_calls, published>>

\* ... then its own guard, dropped when it returns; `log_counter = 0` and the
\* sleep starts.
LgLock ==
  /\ con.pc = "lg_lock"
  /\ ReadGranted(lock)
  /\ con' = [con EXCEPT !.pc = "sleep", !.log_counter = 0]
  /\ UNCHANGED <<sending, pd, last_call, beat_seen, stop_flag, config, lock, queue, produced, batch, analyzer, an,
                 cell, clock, device, owner, consumed, analyze_calls, published>>

\* `sleep(update_interval).await` completes.
ConWake ==
  /\ con.pc = "sleep"
  /\ con' = [con EXCEPT !.pc = "cond"]
  /\ UNCHANGED <<sending, pd, last_call, beat_seen, stop_flag, config, lock, queue, produced, batch, analyzer, an,
                 cell, clock, device, owner, consumed, analyze_calls, published>>

\* ------------------------------------------------------- the public queries
Ranges == {"Bass", "Mid", "High", "Full"}

\* AudioMonitor::get_energy, in hundredths: the channels of the Decision in
\* the watch cell, divided by 255 (Full: their sum by 3 * 255).
GetEnergy(c, range) ==
  LET audio_color == WatchBorrow(c).value
  IN  CASE range = "Bass" -> (audio_color.r * 100) \div 255
        [] range = "Mid" -> (audio_color.g * 100) \div 255
        [] range = "High" -> (audio_color.b * 100) \div 255
        [] range = "Full" ->
             ((audio_color.r + audio_color.g + audio_color.b) * 100) \div (3 * 255)

\* AudioMonitor::get_estimated_bpm: a placeholder, chosen by the mode.
GetEstimatedBpm(c) == IF c.mode = "BpmSync" THEN 120 ELSE 0

\* What the analyzer itself answers, in hundredths: get_normalized_energy
\* (Full is the mean of the three bands) and get_bpm.
ViewEnergy(v, range) ==
  CASE range = "Bass" -> v.bass
    [] range = "Mid" -> v.mid
    [] range = "High" -> v.high
    [] range = "Full" -> Sum3(v) \div 3

Abs(x) == IF x < 0 THEN -x ELSE x

\* ---------------------------------------------------------- specification
Producer == (\E n \in 1..MaxBatch : ProdCallback(n)) \/ ProdSend

Analyzer ==
  \/ AnLoop
  \/ AnDrain
  \/ AnLock
  \/ AnRead1
  \/ AnRead2
  \/ \E ok \in BOOLEAN, o \in AnalysisOutcomes, t \in TimeInputs : AnTick(ok, o, t)
  \/ AnWake

Owner == (\E op \in OwnerCalls : OwnCall(op)) \/ OwnAcquire \/ OwnCommit \/ Stop \/ Drop

Consumer ==
  \/ \E cli \in CliInputs : ConConfigure(cli)
  \/ ConCfgAcquire
  \/ ConCfgCommit
  \/ ConStart
  \/ ConApplyOnce
  \/ ConSetActiveAcquire
  \/ ConSetActiveCommit
  \/ \E ok \in BOOLEAN : ConPower0(ok)
  \/ ConInterval
  \/ ConCond
  \/ ApBorrow
  \/ ApLock
  \/ ApBpm
  \/ \E ok \in BOOLEAN : ApPower(ok)
  \/ \E ok \in BOOLEAN : ApColor(ok)
  \/ \E ok \in BOOLEAN : ApBright(ok)
  \/ LgBpm
  \/ LgLock
  \/ ConWake

\* The whole program.
Next == Producer \/ Analyzer \/ Owner \/ Consumer \/ Tick

\* Sample ingestion: the callback against the analysis loop.
NextIngest == Producer \/ Analyzer \/ Tick \/ Stop

SpecIngest == Init /\ [][NextIngest]_vars

\* Configuration and publication: the control surface against the analysis loop.
NextConfig == Analyzer \/ Owner \/ Tick

SpecConfig == Init /\ [][NextConfig]_vars

\* The consumer loop against the analysis loop.
NextApply == Analyzer \/ Consumer \/ Tick \/ Stop

SpecApply == Init /\ [][NextApply]_vars

\* The configuration lock: every context that takes it.
NextLock == Analyzer \/ Owner \/ Consumer

SpecLock == Init /\ [][NextLock]_vars

\* The visualization engine on its own: run_analyzer with a full window, a
\* configuration stored before its first pass, and the whole range of analyzer
\* answers.
EngineSensitivities == {70, 100}

EngineConfigs ==
  { [DefaultConfig EXCEPT !.mode = m, !.sensitivity = s, !.update_interval_ms = 1,
                          !.active = TRUE] : m \in Modes, s \in EngineSensitivities }
  \cup
  { [DefaultConfig EXCEPT !.mode = "BeatEffects", !.update_interval_ms = 1,
                          !.active = TRUE, !.bass_color_trigger = bt,
                          !.mid_brightness_trigger = mt, !.high_effect_trigger = ht] :
      bt \in BOOLEAN, mt \in BOOLEAN, ht \in BOOLEAN }

\* Analyzer states added to AnalysisOutcomes: a loud passage (bass at its
\* maximum, mid and high close to theirs), a slow tempo with a beat in every
\* band, a slow treble passage, and a medium tempo without a beat.
EngineViews ==
  AnalysisOutcomes \cup
    { [bass |-> 100, mid |-> 90, high |-> 60, beat |-> <<TRUE, FALSE, FALSE>>, bpm |-> 100],
      [bass |-> 80, mid |-> 20, high |-> 10, beat |-> <<TRUE, TRUE, TRUE>>, bpm |-> 65],
      [bass |-> 10, mid |-> 20, high |-> 70, beat |-> <<FALSE, FALSE, TRUE>>, bpm |-> 65],
      [bass |-> 30, mid |-> 30, high |-> 5, beat |-> <<FALSE, FALSE, FALSE>>, bpm |-> 100] }

InitEngine ==
  /\ stop_flag = FALSE
  /\ config \in EngineConfigs
  /\ lock = [writer |-> None, readers |-> [c \in Contexts |-> 0]]
  /\ queue = <<>>
  /\ produced = SampleSize
  /\ batch = 0
  /\ analyzer = [NewAnalyzer EXCEPT !.samples = [i \in 1..SampleSize |-> i]]
  /\ an = [pc |-> "loop", now |-> 0, last_update |-> 0,
           snap |-> Snapshot(DefaultConfig), seen |-> DefaultConfig,
           audio_color |-> DefaultColor]
  /\ cell = [value |-> DefaultColor, version |-> 0]
  /\ clock = 0
  /\ con = [pc |-> "idle", pending |-> DefaultConfig, looping |-> FALSE,
            audio_color |-> DefaultColor, seen |-> 0, update_interval |-> 0,
            log_counter |-> 0, issued |-> <<>>]
  /\ device = [is_on |-> FALSE, rgb_color |-> <<255, 255, 255>>, brightness |-> 100,
               effect |-> NoEffect]
  /\ owner = [pc |-> "idle", op |-> NoCall, calls |-> 0]
  /\ consumed = [i \in 1..SampleSize |-> i]
  /\ analyze_calls = 0
  /\ beat_seen = 0
  /\ last_call = NoDeviceCall
  /\ sending = NoSending
  /\ pd = NoParse
  /\ published = [view |-> InitialView, snap |-> Snapshot(DefaultConfig), now |-> 0,
                  time |-> FirstTime, config |-> DefaultConfig]

NextEngine ==
  \/ AnLoop
  \/ AnDrain
  \/ AnLock
  \/ AnRead1
  \/ AnRead2
  \/ \E ok \in BOOLEAN, o \in EngineViews, t \in TimeInputs : AnTick(ok, o, t)
  \/ AnWake
  \/ Tick
  \/ Stop

SpecEngine == InitEngine /\ [][NextEngine]_vars

\* Mode changes while the pipeline runs: set_config calls that store a
\* configuration of another mode between the ticks of run_analyzer.
ModeChanges ==
  { [kind |-> "set_config", active |-> FALSE,
     config |-> [DefaultConfig EXCEPT !.mode = m, !.sensitivity = 100,
                                      !.update_interval_ms = 1, !.active = TRUE]] :
      m \in {"FrequencyColor", "EnergyBrightness", "SpectralFlow"} }

NextModes ==
  \/ Analyzer
  \/ Tick
  \/ \E op \in ModeChanges : OwnCall(op)
  \/ OwnAcquire
  \/ OwnCommit

\* As InitEngine (a full window), with SpectralFlow stored before the first pass.
InitModes == InitEngine /\ config.mode = "SpectralFlow" /\ config.sensitivity = 100

SpecModes == InitModes /\ [][NextModes]_vars

\* The AudioAnalyzer on its own: add_sample and analyze called on the
\* struct, with analyze() calls TickMs apart on the wall clock.  The input is
\* a tone whose bass level holds and then drops by two units in the last
\* place of the band average, for good; a transform either fails or yields
\* the spectrum of the current level; the calls that return without a result
\* (window not yet full, transform failed) are among the first MaxIdleCalls.
MaxAnalyses == 46
MaxIdleCalls == 2
StartTime == 10000
TickMs == 50

SteadySpectrum ==
  <<[m |-> 10491031, x |-> -23], [m |-> 8388608, x |-> -24], [m |-> 8388608, x |-> -25]>>
DroppedSpectrum ==
  <<[m |-> 10491029, x |-> -23], [m |-> 8388608, x |-> -24], [m |-> 8388608, x |-> -25]>>
SpectrumInputs == {SteadySpectrum, DroppedSpectrum}

SpectraAfter(a) ==
  IF a.energy = ExtractEnergy(a, DroppedSpectrum).energy THEN {DroppedSpectrum}
  ELSE SpectrumInputs

AddSampleStep ==
  /\ Len(consumed) < MaxSamples
  /\ analyzer' = AddSample(analyzer, Len(consumed) + 1)
  /\ consumed' = Append(consumed, Len(consumed) + 1)
  /\ UNCHANGED <<sending, pd, last_call, beat_seen, stop_flag, config, lock, queue, produced, batch, an, cell, clock,
                 con, device, owner, analyze_calls, published>>

\* One analyze() call at wall-clock time current_time.
AnalyzeAt(ok, spectrum, current_time) ==
  /\ analyzer' = AnalyzeSpectrum(analyzer, ok, spectrum, current_time)
  /\ analyze_calls' = analyze_calls + 1
  /\ beat_seen' = IF /\ Len(analyzer.samples) >= SampleSize
                     /\ ok
                     /\ \E i \in 1..3 : analyzer'.beat_detected[i]
                  THEN current_time ELSE beat_seen
  /\ UNCHANGED <<sending, pd, last_call, stop_flag, config, lock, queue, produced, batch, an, cell, clock,
                 con, device, owner, consumed, published>>

AnalyzeStep(ok, spectrum) ==
  /\ analyze_calls < MaxAnalyses
  /\ (Len(analyzer.samples) < SampleSize \/ ~ok) => analyze_calls < MaxIdleCalls
  /\ spectrum \in SpectraAfter(analyzer)
  /\ AnalyzeAt(ok, spectrum, StartTime + TickMs * analyze_calls)

NextAnalyzer ==
  \/ AddSampleStep
  \/ \E ok \in BOOLEAN, spectrum \in SpectrumInputs : AnalyzeStep(ok, spectrum)

SpecAnalyzer == Init /\ [][NextAnalyzer]_vars

\* The beat detector: analyze() on a full window, fed for call n with
\* silence, with a pulse louder than everything before it (2^n) or with a
\* swell of 1.375 times the previous pulse, the same in the three bands; the
\* wall clock reads StartTime until a bass beat is recorded and afterwards
\* at any of ClockOffsets from the recorded beat, in any order.
MaxBeatCalls == 5

BeatLevels(n) ==
  {FZero, [m |-> 8388608, x |-> n - 23], [m |-> 11534336, x |-> n - 24]}

BeatSpectra(n) == {<<v, v, v>> : v \in BeatLevels(n)}

ClockOffsets == {-100, 200, 250, 2000}

ClockReadings(a) ==
  IF a.last_beat_time = 0 THEN {StartTime}
  ELSE {a.last_beat_time + d : d \in ClockOffsets}

FillWindow ==
  /\ Len(analyzer.samples) < SampleSize
  /\ AddSampleStep

BeatStep(ok, spectrum, current_time) ==
  /\ Len(analyzer.samples) >= SampleSize
  /\ analyze_calls < MaxBeatCalls
  /\ ~ok => analyze_calls < MaxIdleCalls
  /\ spectrum \in BeatSpectra(analyze_calls)
  /\ current_time \in ClockReadings(analyzer)
  /\ AnalyzeAt(ok, spectrum, current_time)

NextBeats ==
  \/ FillWindow
  \/ \E ok \in BOOLEAN, spectrum \in BeatSpectra(analyze_calls),
        current_time \in ClockReadings(analyzer) :
        BeatStep(ok, spectrum, current_time)

SpecBeats == Init /\ [][NextBeats]_vars

\* ---------------------------------------------------------------------
\* The tempo window over a long passage: a crescendo in which every
\* spectrum is twice as loud as the one before, so that every analyze()
\* call finds a bass spike, read at wall-clock times chosen relative to
\* the last recorded beat.
\* ---------------------------------------------------------------------

MaxTempoCalls == 27
MaxTempoSpan == 5100

\* Milliseconds between the last recorded beat and the next clock reading:
\* a clock set back, exactly 200 ms, just over 200 ms, and a long pause.
TempoOffsets == {-100, 200, 201, 2500}

TempoReadings(a) ==
  IF a.last_beat_time = 0 THEN {StartTime}
  ELSE {t \in {a.last_beat_time + d : d \in TempoOffsets} : t <= StartTime + MaxTempoSpan}

TempoSpectrum(n) == <<[m |-> 8388608, x |-> n - 23], [m |-> 8388608, x |-> n - 23],
                      [m |-> 8388608, x |-> n - 23]>>

TempoStep(current_time) ==
  /\ Len(analyzer.samples) >= SampleSize
  /\ analyze_calls < MaxTempoCalls
  /\ current_time \in TempoReadings(analyzer)
  /\ AnalyzeAt(TRUE, TempoSpectrum(analyze_calls), current_time)

NextTempo ==
  \/ FillWindow
  \/ \E current_time \in TempoReadings(analyzer) : TempoStep(current_time)

SpecTempo == Init /\ [][NextTempo]_vars

\* The BleLedDevice on its own: any sequence of set_color, set_brightness
\* and set_effect calls, each send of which succeeds or fails.
NextDevice ==
  \/ \E failed_at \in 0..1 : DevPowerOn(failed_at)
  \/ \E failed_at \in 0..1 : DevPowerOff(failed_at)
  \/ \E r \in DeviceChannels, g \in DeviceChannels, b \in DeviceChannels,
        failed_at \in 0..2 : DevSetColor(r, g, b, failed_at)
  \/ \E value \in DeviceBrightnesses, failed_at \in 0..1 : DevSetBrightness(value, failed_at)
  \/ \E value \in DeviceEffects, failed_at \in 0..1 : DevSetEffect(value, failed_at)

SpecDevice == Init /\ [][NextDevice]_vars

\* The command dispatcher: two tasks sending through one CommandQueue.
NextSend ==
  \E c \in Senders :
    \/ SendCall(c)
    \/ SendAcquire(c)
    \/ \E ok \in BOOLEAN : SendWrite(c, ok)
    \/ SendRetry(c)
    \/ SendRelease(c)

SpecSend == Init /\ [][NextSend]_vars

\* parse_days on its own, called once with each input.
NextDays ==
  \/ \E days \in DaysInputs : ParseDaysCall(days)
  \/ ParseDaysMatch
  \/ ParseDaysFor

SpecDays == Init /\ [][NextDays]_vars

\* Fairness for the lock's contexts: each thread or task that can take a
\* step eventually takes one (the analyzer is an OS thread, the consumer a
\* polled task, a writer that holds the writer bit is woken when the last
\* read guard is dropped).
FairLock ==
  /\ SpecLock
  /\ WF_vars(Analyzer)
  /\ WF_vars(Consumer)
  /\ WF_vars(OwnAcquire \/ OwnCommit)

\* ------------------------------------------------------------------ claims

\* C1: latest-wins publication.  The cell has one writer (the tick of
\* run_analyzer), every write replaces the value and advances the version by
\* one, and what a reader's borrow returns is the value stored at that
\* moment: the versions a reader sees never decrease.
C1_LatestWins ==
  [][ /\ cell'.version \in {cell.version, cell.version + 1}
      /\ (cell' # cell => an.pc = "tick" /\ cell'.value = an'.audio_color)
      /\ con'.seen >= con.seen
      /\ (con.pc = "ap_borrow" /\ con'.pc = "ap_lock"
            => con'.seen = cell.version /\ con'.audio_color = cell.value) ]_vars

\* The reader is in its second apply_to_device of the loop and has just read
\* the second (or a later) published Decision.
C1_Witness == con.pc = "ap_lock" /\ con.log_counter = 1 /\ con.seen >= 2

\* C2: a pass that read active = false and whose cadence has elapsed calls
\* analyze() and leaves the Decision cell untouched.
C2_InactiveNeverPublishes ==
  [][ (an.pc = "tick" /\ an'.pc = "sleep" /\ ~an.snap.active)
        => /\ cell' = cell
           /\ (CadenceElapsed(an.now, an.last_update, an.snap.update_interval)
                 => analyze_calls' = analyze_calls + 1) ]_vars

\* After a Decision was published, a tick with active = false has run analyze().
C2_Witness ==
  /\ an.pc = "sleep" /\ ~an.snap.active /\ an.last_update = an.now
  /\ cell.version > 0 /\ analyze_calls > cell.version

\* C3: the published Decision is a function of the tick's analyzer snapshot,
\* configuration and time alone: it is the Decision a tick computes from
\* these inputs when nothing was computed before it.
C3_DecisionIsPure ==
  cell.version > 0
    => cell.value = Decide(DefaultColor, published.view, published.snap, published.time)

\* A context waits for the configuration lock.
LockWaiting(c) ==
  CASE c = "analyzer" -> an.pc = "lock" /\ ~ReadGranted(lock)
    [] c = "consumer" ->
         \/ con.pc \in {"interval", "cond", "ap_lock", "ap_bpm", "lg_bpm", "lg_lock"}
              /\ ~ReadGranted(lock)
         \/ con.pc \in {"cfg_acquire", "sa_acquire"} /\ ~WriterBitFree(lock)
         \/ con.pc \in {"cfg_drain", "sa_drain"} /\ ~WriteGranted(lock, "consumer")
    [] c = "owner" ->
         \/ owner.pc = "acquire" /\ ~WriterBitFree(lock)
         \/ owner.pc = "drain" /\ ~WriteGranted(lock, "owner")

\* A context holds a read guard or the writer bit.
LockHolding(c) == lock.readers[c] > 0 \/ lock.writer = c

\* Some context waits and every context that holds the lock waits as well:
\* nobody will ever release it.
LockDeadlock ==
  /\ \E c \in Contexts : LockWaiting(c)
  /\ \E c \in Contexts : LockHolding(c)
  /\ \A c \in Contexts : LockHolding(c) => LockWaiting(c)

\* C4: no deadlock on the configuration lock is reachable.
C4_NoLockDeadlock == ~LockDeadlock

\* Positions at which a context is suspended: asleep or awaiting a device command.
ConSuspended == con.pc \in {"await_power0", "await_power", "await_color",
                            "await_bright", "sleep"}

\* C5: a context that sleeps or awaits a device command holds no guard on the
\* configuration.
C5_NoGuardAcrossSuspension ==
  /\ (ConSuspended => ~LockHolding("consumer"))
  /\ (an.pc = "sleep" => ~LockHolding("analyzer"))

\* C6: once the stop flag is raised, run_analyzer eventually leaves its loop.
C6_StopIsLive == stop_flag ~> (an.pc = "done")

\* C7: the stop flag only goes from false to true; run_analyzer leaves its
\* loop only having seen it, never re-enters, and after that calls analyze()
\* no more and publishes nothing.
C7_StoppedIsTerminal ==
  [][ /\ (stop_flag => stop_flag')
      /\ (an.pc # "done" /\ an'.pc = "done" => stop_flag)
      /\ (an.pc = "done" => /\ an'.pc = "done"
                            /\ analyze_calls' = analyze_calls
                            /\ analyzer' = analyzer
                            /\ cell' = cell) ]_vars

\* run_analyzer has published, has exited, and the monitor was dropped after
\* a second stop.
C7_Witness == an.pc = "done" /\ cell.version > 0 /\ owner.pc = "dropped"

\* C8: the channel never holds more than its capacity; the callback's loop
\* can always take its next step; a sample offered to a full channel is
\* discarded and whatever the producer does leaves the queued samples in
\* place (it only ever appends).
C8_DropWhenFull ==
  /\ [](Len(queue) <= ChannelCapacity /\ (batch > 0 => ENABLED ProdSend))
  /\ [][ produced' # produced
           => /\ (Len(queue) = ChannelCapacity => queue' = queue)
              /\ (queue' = queue \/ queue' = Append(queue, produced + 1)) ]_vars

\* The channel is full and a sample has been discarded.
C8_Witness ==
  Len(queue) = ChannelCapacity /\ produced > Len(consumed) + Len(queue) + batch

\* C9: the samples passed to add_sample are, in order, a subsequence of the
\* samples the callback produced (numbered 1, 2, ... in arrival order): no
\* reordering, no duplicate; the window holds the latest of them.
C9_ArrivalOrder ==
  /\ \A i \in 1..Len(consumed) :
       /\ consumed[i] \in 1..produced
       /\ (i > 1 => consumed[i - 1] < consumed[i])
  /\ analyzer.samples =
       SubSeq(consumed, Max(1, Len(consumed) - SampleSize + 1), Len(consumed))

\* A sample was dropped between two consumed ones.
C9_Witness ==
  \E i \in 1..(Len(consumed) - 1) : consumed[i + 1] > consumed[i] + 1

\* C10: every tick works on one consistent snapshot of the configuration:
\* while the analyzer holds its guard the configuration does not change, the
\* tuple it ticks with is the tuple of the configuration it locked, and so is
\* the tuple behind each published Decision, whatever was stored since.
C10_ConsistentSnapshot ==
  /\ (an.pc \in {"read1", "read2"} => config = an.seen)
  /\ (an.pc = "tick" => an.snap = Snapshot(an.seen))
  /\ (cell.version > 0 => published.snap = Snapshot(published.config))

\* A Decision was just published from the snapshot of a configuration that
\* has been replaced since the snapshot was taken.
C10_Witness ==
  /\ an.pc = "sleep" /\ an.last_update = an.now /\ an.snap.active
  /\ cell.version > 0 /\ published.config = an.seen
  /\ config.mode # an.seen.mode /\ config.sensitivity # an.seen.sensitivity

\* How many times apply_to_device has handed command cmd to the fixture in
\* the invocation that is running (or ran last).
IssuedCount(cmd) == Cardinality({i \in 1..Len(con.issued) : con.issued[i].cmd = cmd})

\* C11: one invocation of apply_to_device issues at most one of set_effect and
\* set_color (set_effect only for a Decision with an effect, set_color only
\* for one without; exactly one of them once the call is past that point) and
\* at most one set_brightness, which comes last and right after that command.
C11_OneColorCommand ==
  /\ IssuedCount("set_effect") + IssuedCount("set_color") <= 1
  /\ IssuedCount("set_brightness") <= 1
  /\ (IssuedCount("set_effect") = 1 => con.audio_color.effect # NoEffect)
  /\ (IssuedCount("set_color") = 1 => con.audio_color.effect = NoEffect)
  /\ (con.pc = "await_bright"
        => IssuedCount("set_effect") + IssuedCount("set_color") = 1)
  /\ \A i \in 1..Len(con.issued) :
       con.issued[i].cmd = "set_brightness"
         => /\ i = Len(con.issued)
            /\ i > 1
            /\ con.issued[i - 1].cmd \in {"set_effect", "set_color"}

\* An invocation inside the monitoring loop issued set_effect, then
\* set_brightness, and both succeeded.
C11_Witness ==
  /\ con.looping /\ con.pc \in {"sleep", "lg_bpm"}
  /\ Len(con.issued) = 2
  /\ con.issued[1] = [cmd |-> "set_effect", ok |-> TRUE]
  /\ con.issued[2] = [cmd |-> "set_brightness", ok |-> TRUE]

\* C12: a device command that fails inside apply_to_device is the last one of
\* that invocation and the caller ends with the error; the failing step
\* changes neither the stop flag nor the configuration nor anything of
\* run_analyzer, the consumer does nothing more, and it leaves no guard
\* behind that would keep run_analyzer from its next pass.
C12_FailurePropagates ==
  /\ [](\A i \in 1..Len(con.issued) :
          ~con.issued[i].ok => i = Len(con.issued) /\ con.pc = "err")
  /\ [](con.pc = "err" => ~LockHolding("consumer"))
  /\ [][ /\ (con.pc # "err" /\ con'.pc = "err"
               => /\ stop_flag' = stop_flag /\ config' = config
                  /\ an' = an /\ analyzer' = analyzer /\ cell' = cell)
         /\ (con.pc = "err" => con' = con) ]_vars

\* The monitoring loop ended with the error of a set_brightness; the
\* visualization is still active and not stopped, and run_analyzer has
\* published a Decision newer than the one that apply read.
C12_Witness ==
  /\ con.pc = "err" /\ con.looping
  /\ Len(con.issued) = 2 /\ con.issued[2] = [cmd |-> "set_brightness", ok |-> FALSE]
  /\ config.active /\ ~stop_flag
  /\ cell.version > con.seen

\* C13: once the analyzer has been asked to analyze, get_energy(range)
\* answers, for each of the four ranges, the analyzer's normalized energy of
\* that range (to within one hundredth, the resolution of the model).
C13_EnergyQueryIsAnalyzerEnergy ==
  analyze_calls > 0
    => \A range \in Ranges :
         Abs(GetEnergy(cell, range) - ViewEnergy(analyzer.view, range)) <= 1

\* C14: once the analyzer has been asked to analyze, get_estimated_bpm()
\* answers the analyzer's estimated_bpm.
C14_BpmQueryIsAnalyzerBpm ==
  analyze_calls > 0 => GetEstimatedBpm(config) = analyzer.view.bpm

\* C15: the Decision in the cell has a brightness between 0 and 100.
C15_BrightnessInRange == cell.value.brightness \in 0..100

\* C17: the sensitivity a tick multiplies into its colours and brightness
\* lies between 0.0 and 1.0 (0 and 100 hundredths).
C17_SensitivityClamped ==
  an.pc = "tick" /\ an.snap.active => an.snap.sensitivity \in 0..100

\* The sums of the truncated contributions that the EnhancedFrequencyColor
\* arm adds into r, g and b.
MixSum(a, s) ==
  LET bass_r == IF a.bass > 5 THEN U8((255 * a.bass * s) \div 10000) ELSE 0
      bass_g == IF a.bass > 5 THEN U8((150 * a.bass * a.bass * s) \div 1000000) ELSE 0
      mid_g == IF a.mid > 5 THEN U8((255 * a.mid * s) \div 10000) ELSE 0
      mid_b == IF a.mid > 5 THEN U8((100 * a.mid * a.mid * s) \div 1000000) ELSE 0
      high_b == IF a.high > 5 THEN U8((255 * a.high * s) \div 10000) ELSE 0
      high_rg == IF a.high > 5 THEN U8((180 * a.high * a.high * s) \div 1000000) ELSE 0
  IN  [r |-> bass_r + high_rg, g |-> bass_g + mid_g + high_rg, b |-> mid_b + high_b]

\* The bass-heavy or treble-heavy replacement of the mixed colour applies.
MixReplaced(a) ==
  \/ a.bass > 70 /\ 2 * a.bass > 3 * a.mid /\ a.bass > 2 * a.high
  \/ a.high > 70 /\ 2 * a.high > 3 * a.mid /\ a.high > 2 * a.bass

\* A channel that saturates at 255, with the floor of 10 when there is sound.
Saturated(x, a) == IF Sum3(a) > 15 THEN Max(Min(x, 255), 10) ELSE Min(x, 255)

\* C16: a Decision published in EnhancedFrequencyColor mode with energies and
\* sensitivity in [0,1] (and no replacement of the mixed colour) has each of
\* r, g, b equal to the sum of its contributions, saturated at 255.
C16_MixSaturates ==
  ( /\ cell.version > 0
    /\ published.snap.mode = "EnhancedFrequencyColor"
    /\ published.snap.sensitivity \in 0..100
    /\ ~MixReplaced(published.view) )
  => LET m == MixSum(published.view, published.snap.sensitivity)
     IN  /\ cell.value.r = Saturated(m.r, published.view)
         /\ cell.value.g = Saturated(m.g, published.view)
         /\ cell.value.b = Saturated(m.b, published.view)

\* C18: the analysis window never holds more than sample_size samples, and
\* after k samples were added it holds the most recent min(k, sample_size)
\* of them in arrival order.
C18_WindowIsMostRecent ==
  LET k == Len(consumed)
      n == Min(k, SampleSize)
  IN  /\ Len(analyzer.samples) = n
      /\ \A i \in 1..n : analyzer.samples[i] = consumed[k - n + i]

C18_Witness ==
  /\ Len(consumed) > SampleSize
  /\ Len(analyzer.samples) = SampleSize
  /\ analyzer.samples[1] # consumed[1]

\* C19: an analyze() call on a window of fewer than sample_size samples
\* changes nothing in the analyzer.
C19_ColdStartNoOp ==
  [][(analyze_calls' # analyze_calls /\ Len(analyzer.samples) < SampleSize)
       => analyzer' = analyzer]_vars

C19_Witness ==
  /\ analyze_calls > 0
  /\ Len(analyzer.samples) < SampleSize
  /\ Len(analyzer.samples) > 0

\* C20: the smoothed energy of a band never exceeds the band's maximum, so
\* every normalized energy the analyzer answers lies in [0, 1].
C20_NormalizedEnergyInUnit ==
  /\ \A i \in 1..3 : FLeq(analyzer.smoothed_energy[i], analyzer.max_energy[i])
  /\ \A range \in Ranges : FLeq(GetNormalizedEnergy(analyzer, range), F1_0)

\* C21: any two entries of beat_timestamps are at least 200 ms apart; each
\* entry is more than 200 ms after the one recorded before it.
C21_BeatsApart ==
  \A j \in 1..Len(analyzer.beat_timestamps) - 1 :
    analyzer.beat_timestamps[j + 1] - analyzer.beat_timestamps[j] > 200

\* Two beats are on record, and a bass beat was flagged at a reading that
\* was too close to the last recorded one to be recorded itself.
C21_Witness ==
  /\ Len(analyzer.beat_timestamps) >= 2
  /\ analyzer.beat_detected[1]
  /\ beat_seen = analyzer.last_beat_time + 200

\* C22: estimated_bpm changes in a tick only if the tick recorded a bass
\* beat, at least 4 time stamps remain and (count - 1) * 60 / (newest -
\* oldest) lies in [60, 200]; it then becomes 0.7 * old + 0.3 * that value.
\* In every other tick it is unchanged.
C22_BpmBlending ==
  [][LET stamps == analyzer'.beat_timestamps
         n == Len(stamps)
         recorded == stamps # analyzer.beat_timestamps
         span == stamps[n] - stamps[1]
         eligible == /\ recorded
                     /\ n >= 4
                     /\ 60 * span <= (n - 1) * 60000
                     /\ (n - 1) * 60000 <= 200 * span
     IN  analyzer'.estimated_bpm =
           IF eligible
           THEN FAdd(FMul(analyzer.estimated_bpm, F0_7),
                     FMul(FRatio((n - 1) * 60000, span), F0_3))
           ELSE analyzer.estimated_bpm]_vars

\* The estimate has moved off its initial 120 to 72 * 0.3 + 120 * 0.7.
C22_Witness ==
  /\ Len(analyzer.beat_timestamps) = 4
  /\ analyzer.beat_timestamps[4] - analyzer.beat_timestamps[1] = 2500
  /\ FLess(analyzer.estimated_bpm, F120_0)

\* Colour and effect of the published Decision.
PublishedLook == <<cell.value.r, cell.value.g, cell.value.b, cell.value.effect>>

\* C23: a BeatEffects Decision is red with crossfade-red when the bass beat
\* flag and the bass trigger are set, whatever the other flags and triggers;
\* otherwise green with crossfade-green for a mid beat with the mid trigger,
\* otherwise blue with crossfade-blue for a high beat with the high trigger,
\* otherwise white without effect.
C23_BeatEffectsPriority ==
  (cell.version > 0 /\ published.snap.mode = "BeatEffects")
  => LET v == published.view
         sn == published.snap
         bass == v.beat[1] /\ sn.bass_trigger
         mid == v.beat[2] /\ sn.mid_trigger
         high == v.beat[3] /\ sn.high_trigger
     IN  /\ bass => PublishedLook = <<255, 0, 0, EFFECTS_crossfade_red>>
         /\ (~bass /\ mid) => PublishedLook = <<0, 255, 0, EFFECTS_crossfade_green>>
         /\ (~bass /\ ~mid /\ high) => PublishedLook = <<0, 0, 255, EFFECTS_crossfade_blue>>
         /\ (~bass /\ ~mid /\ ~high) => PublishedLook = <<255, 255, 255, NoEffect>>

\* Every band has a beat, the bass trigger is off and the mid trigger on:
\* the Decision is green.
C23_Witness ==
  /\ cell.version > 0
  /\ published.snap.mode = "BeatEffects"
  /\ published.view.beat = <<TRUE, TRUE, TRUE>>
  /\ ~published.snap.bass_trigger
  /\ published.snap.mid_trigger
  /\ PublishedLook = <<0, 255, 0, EFFECTS_crossfade_green>>

\* C24: a BpmSync Decision taken on the beat with a bass beat has r = 255
\* and crossfade-red below 70 bpm, is (255,40,0) with the red-green-blue
\* jump from 70 to below 120 bpm, and white with the all-colour jump from
\* 120 bpm; off the beat the medium and fast tempi carry no effect, and below
\* 70 bpm every Decision carries one.
C24_BpmSyncBranches ==
  (cell.version > 0 /\ published.snap.mode = "BpmSync")
  => LET bpm == published.view.bpm
         on_beat == published.time.on_beat
         hit == on_beat /\ published.view.beat[1]
     IN  /\ (hit /\ bpm < 70)
              => cell.value.r = 255 /\ cell.value.effect = EFFECTS_crossfade_red
         /\ (hit /\ bpm >= 70 /\ bpm < 120)
              => PublishedLook = <<255, 40, 0, EFFECTS_jump_red_green_blue>>
         /\ (hit /\ bpm >= 120)
              => PublishedLook =
                   <<255, 255, 255, EFFECTS_jump_red_green_blue_yellow_cyan_magenta_white>>
         /\ (~on_beat /\ bpm >= 70) => cell.value.effect = NoEffect
         /\ bpm < 70 => cell.value.effect # NoEffect

\* Below 70 bpm, on the beat, with a bass beat: the slow branch's red.
C24_Witness ==
  /\ cell.version > 0
  /\ published.snap.mode = "BpmSync"
  /\ published.view.bpm < 70
  /\ published.time.on_beat
  /\ published.view.beat[1]
  /\ cell.value.r = 255
  /\ cell.value.effect = EFFECTS_crossfade_red

\* C25: an EnergyBrightness Decision is pure red, green or blue only when
\* that band exceeds both other bands by more than 0.1, and white otherwise;
\* it has no effect and brightness clamp(trunc(full * 100 * sensitivity), 5,
\* 100).
C25_EnergyBrightnessColour ==
  (cell.version > 0 /\ published.snap.mode = "EnergyBrightness")
  => LET v == published.view
         red == v.bass - v.mid > 10 /\ v.bass - v.high > 10
         green == v.mid - v.bass > 10 /\ v.mid - v.high > 10
         blue == v.high - v.bass > 10 /\ v.high - v.mid > 10
     IN  /\ PublishedLook = IF red THEN <<255, 0, 0, NoEffect>>
                            ELSE IF green THEN <<0, 255, 0, NoEffect>>
                            ELSE IF blue THEN <<0, 0, 255, NoEffect>>
                            ELSE <<255, 255, 255, NoEffect>>
         /\ cell.value.brightness =
              Clamp((Sum3(v) * published.snap.sensitivity) \div 300, 5, 100)

\* C26: set_brightness clamps: for every u8 argument v a successful call
\* writes the byte min(v, 100) and caches min(v, 100); the call fails only
\* when its send fails; the cached brightness never exceeds 100.
C26_BrightnessClamps ==
  /\ device.brightness <= 100
  /\ (last_call.name = "set_brightness" /\ last_call.failed_at = 0)
       => LET v == last_call.args[1]
          IN  /\ last_call.frames = <<BrightnessFrame(Min(v, 100))>>
              /\ last_call.frames[1][4] <= 100
              /\ device.brightness = Min(v, 100)

\* set_brightness(255) succeeded and 100 is cached.
C26_Witness ==
  /\ last_call.name = "set_brightness"
  /\ last_call.args = <<255>>
  /\ last_call.failed_at = 0
  /\ device.brightness = 100

\* C27: a successful set_color(r, g, b) leaves effect = None and rgb_color =
\* (r, g, b); when an effect was active at the call, the disable-effect frame
\* is written before the colour frame.
C27_SetColorClearsEffect ==
  [][(last_call'.name = "set_color" /\ last_call'.failed_at = 0)
       => /\ device'.effect = NoEffect
          /\ device'.rgb_color = last_call'.args
          /\ LET rgb == ColorFrame(last_call'.args[1], last_call'.args[2],
                                   last_call'.args[3])
             IN  last_call'.frames = IF device.effect # NoEffect
                                     THEN <<DisableEffectFrame, rgb>>
                                     ELSE <<rgb>>]_vars

\* set_effect, then a successful set_color that wrote the disable-effect
\* frame first: no effect is cached.
C27_Witness ==
  /\ last_call.name = "set_color"
  /\ last_call.failed_at = 0
  /\ Len(last_call.frames) = 2
  /\ last_call.frames[1] = DisableEffectFrame
  /\ device.effect = NoEffect

\* C28: an analyze() whose transform fails changes nothing in the analyzer
\* (energy, smoothed_energy, max_energy, prev_energy, energy_history,
\* beat_detected, beat_timestamps, last_beat_time, estimated_bpm), and the
\* calls after it are processed as usual.
C28_FailedTransformSkips ==
  /\ [](\A spectrum \in BeatSpectra(analyze_calls), t \in ClockReadings(analyzer) :
          AnalyzeSpectrum(analyzer, FALSE, spectrum, t) = analyzer)
  /\ [][(analyze_calls' # analyze_calls
           /\ analyzer'.energy_history = analyzer.energy_history)
          => analyzer' = analyzer]_vars

\* The first call failed and the second was processed: the only energy on
\* record is the pulse offered to the second call.
C28_Witness ==
  /\ analyze_calls = 2
  /\ Len(analyzer.energy_history[1]) = 1
  /\ analyzer.energy[1] = FMul([m |-> 8388608, x |-> -22], F0_8)
  /\ analyzer.beat_detected[1]

\* C29: in every tick a band is flagged only if its normalized energy exceeds
\* 0.3 and the spike or the local-average criterion holds, a loud spike always
\* flags it, and a band flagged without a spike is flagged more than 200 ms
\* after the last beat detected in any band (beat_seen).
C29_LocalAverageSpacing ==
  [][analyzer'.energy_history # analyzer.energy_history
       => \A i \in 1..3 :
            LET e == analyzer'.energy[i]
                history == analyzer'.energy_history[i]
                loud == FLess(F0_3, FDiv(e, analyzer'.max_energy[i]))
                spike == FLess(FMul(analyzer.prev_energy[i],
                                    analyzer.beat_thresholds[i]), e)
                local == FLess(FMul(FDiv(FSum(history), FInt(Len(history))), F1_3), e)
                flagged == analyzer'.beat_detected[i]
                spaced == beat_seen' - beat_seen > 200
            IN  /\ flagged => loud /\ (spike \/ local)
                /\ (loud /\ spike) => flagged
                /\ (flagged /\ ~spike) => spaced]_vars

\* C30: analyze() runs, and a Decision is published, only in the tick step of
\* a pass, once, and only when the interval read in that pass has elapsed
\* since the previous tick; every tick restarts the timer, active or not, so a
\* publication comes at least that interval after the previous one.
C30_TickCadence ==
  [][(analyze_calls' # analyze_calls \/ cell'.version # cell.version)
       => /\ an.pc = "tick" /\ an'.pc = "sleep"
          /\ analyze_calls' = analyze_calls + 1
          /\ cell'.version \in {cell.version, cell.version + 1}
          /\ an.now - an.last_update >= an.snap.update_interval
          /\ an'.last_update = an.now
          /\ (cell'.version # cell.version /\ cell.version > 0)
               => published'.now - published.now >= an.snap.update_interval]_vars

\* A second publication has just been made, two clock units after the first
\* tick, under an interval the owner changed after the first publication.
C30_Witness ==
  /\ cell.version = 2 /\ analyze_calls = 2
  /\ an.pc = "sleep" /\ an.last_update = an.now /\ published.now = an.now
  /\ an.now = 3 /\ an.snap.update_interval = 2
  /\ config.update_interval_ms = 2

\* C31: a send_command makes at most 3 write attempts, no attempt follows a
\* successful one, the result is Ok exactly when the last attempt succeeded
\* and BleError exactly when 3 attempts failed, never CommandTimeout, and at
\* most one task is past the semaphore at any time.
C31_BoundedRetry ==
  /\ \A c \in Senders :
       LET t == sending.task[c]
           n == Len(t.outcomes)
       IN  /\ n <= 3
           /\ \A i \in 1..(n - 1) : ~t.outcomes[i]
           /\ t.result # "CommandTimeout"
           /\ (t.result = "Ok") <=> (n > 0 /\ t.outcomes[n])
           /\ (t.result = "BleError") <=> (t.outcomes = <<FALSE, FALSE, FALSE>>)
           /\ (t.pc = "idle" /\ t.calls > 0) => t.result \in {"Ok", "BleError"}
  /\ Cardinality({c \in Senders : sending.task[c].pc \in {"write", "backoff", "release"}}) <= 1
  /\ sending.permits
       = 1 - Cardinality({c \in Senders : sending.task[c].pc \in {"write", "backoff", "release"}})

\* The first task's second call has returned BleError after three failed
\* writes; the second task's call succeeded at its second attempt and is
\* about to give the permit back.
C31_Witness ==
  /\ sending.task["first"].calls = 2 /\ sending.task["first"].pc = "idle"
  /\ sending.task["first"].result = "BleError"
  /\ sending.task["second"].pc = "release"
  /\ sending.task["second"].outcomes = <<FALSE, TRUE>>

\* C32: once the stop flag is raised, the loop of start_continuous_monitoring
\* enters apply_to_device no more after its next test of the flag, and the
\* function eventually returns.
C32_ConsumerStops ==
  /\ [][(stop_flag /\ con.looping /\ con.pc = "cond") => con'.pc # "ap_borrow"]_vars
  /\ (stop_flag /\ con.looping) ~> (con.pc \in {"done", "err"})

\* C33: a device call whose command failed leaves is_on, rgb_color, brightness
\* and effect as they were; is_on becomes true only by a successful power_on
\* and false only by a successful power_off, and each of them sets it.
C33_CacheOnlyOnSuccess ==
  [][ /\ (last_call'.failed_at # 0 => device' = device)
      /\ (device'.is_on # device.is_on
            => /\ last_call'.failed_at = 0
               /\ last_call'.name = IF device'.is_on THEN "power_on" ELSE "power_off")
      /\ (last_call'.failed_at = 0 /\ last_call'.name = "power_on" => device'.is_on)
      /\ (last_call'.failed_at = 0 /\ last_call'.name = "power_off" => ~device'.is_on) ]_vars

\* With the strip on and an effect cached, set_color wrote the frame that
\* disables the effect and its colour frame then failed.
C33_Witness ==
  /\ last_call.name = "set_color" /\ last_call.failed_at = 2
  /\ last_call.frames = <<DisableEffectFrame>>
  /\ device.is_on /\ device.effect # NoEffect /\ device.brightness = 50

\* C34: a FrequencyColor tick publishes the brightness of the Decision before
\* it, and a SpectralFlow tick that takes the bass-beat jump branch publishes
\* the r, g, b of the Decision before it.
C34_UnassignedFieldsCarry ==
  [][cell'.version # cell.version
       => LET a == published'.view
              jump == /\ 5 * a.bass + 3 * a.mid + 2 * a.high >= 50
                      /\ a.beat[1] /\ a.bass > 70
          IN  /\ published'.snap.mode = "FrequencyColor"
                   => cell'.value.brightness = cell.value.brightness
              /\ (published'.snap.mode = "SpectralFlow" /\ jump)
                   => /\ cell'.value.r = cell.value.r
                      /\ cell'.value.g = cell.value.g
                      /\ cell'.value.b = cell.value.b
                      /\ cell'.value.effect
                           = EFFECTS_jump_red_green_blue_yellow_cyan_magenta_white]_vars

\* A FrequencyColor tick has published a brightness that an earlier tick of
\* another mode set.
C34_Witness ==
  /\ cell.version >= 2 /\ published.snap.mode = "FrequencyColor"
  /\ published.view.bass > 0
  /\ cell.value.brightness \notin {20, 100} /\ cell.value.effect = NoEffect
  /\ an.pc = "sleep" /\ an.audio_color = cell.value

\* C35: in every analyzer state 60 <= estimated_bpm <= 200; in particular it
\* is positive (is_on_beat never takes its `<= 0` return) and a value below 70
\* (BpmSync's slow branch) is at least 60.  The blend of the current estimate
\* with any end of the accepted range stays in the range, also when the
\* estimate is itself at an end.
C35_BpmInRange ==
  /\ FLeq(F60_0, analyzer.estimated_bpm)
  /\ FLeq(analyzer.estimated_bpm, F200_0)
  /\ ~FLeq(analyzer.estimated_bpm, FZero)
  /\ \A old \in {analyzer.estimated_bpm, F60_0, F200_0}, new_bpm \in {F60_0, F200_0} :
       LET blended == FAdd(FMul(old, F0_7), FMul(new_bpm, F0_3))
       IN  FLeq(F60_0, blended) /\ FLeq(blended, F200_0)

\* The estimate has been blended twice, with 72 and then 87.3 beats per
\* minute: five stamps are in the window.
C35_Witness ==
  /\ Len(analyzer.beat_timestamps) = 5
  /\ analyzer.beat_timestamps[4] - analyzer.beat_timestamps[1] = 2500
  /\ analyzer.beat_timestamps[5] - analyzer.beat_timestamps[1] = 2750
  /\ FLess(analyzer.estimated_bpm, F120_0)

C37_ParseDaysReturns ==
  /\ pd.pc = "returned" => pd.result \in 0..127
  /\ (pd.pc = "returned" /\ DayMatch(pd.days) # Composite) => pd.result = DayMatch(pd.days)
  /\ \A i \in 1..Len(pd.stack), j \in 1..Len(pd.stack) :
       i < j => pd.stack[i].days # pd.stack[j].days

C39_TempoWindowBounded ==
  LET stamps == analyzer.beat_timestamps
  IN  /\ Len(stamps) <= 25
      /\ stamps # <<>> =>
           /\ stamps[Len(stamps)] - stamps[1] <= 5000
           /\ stamps[Len(stamps)] = analyzer.last_beat_time
      /\ \A k \in 1..(Len(stamps) - 1) : stamps[k + 1] - stamps[k] > 200
      /\ \A i \in 1..3 : Len(analyzer.energy_history[i]) <= HistoryCapacity

\* The window is full on both counts, 25 stamps and 20 history values per
\* band, and an older stamp has already been dropped from the front.
C39_Witness ==
  /\ Len(analyzer.beat_timestamps) = 25
  /\ analyzer.beat_timestamps[1] > StartTime
  /\ \A i \in 1..3 : Len(analyzer.energy_history[i]) = HistoryCapacity
  /\ analyze_calls > HistoryCapacity

====
